---- MODULE Spec2Model ----
(***************************************************************************)
(* Dataset-profiling scripts of Task_04_Descriptive_Stats.                 *)
(*                                                                         *)
(* Each script builds one analyzer object, loads one CSV file into it and  *)
(* prints reports.  The model runs the scripts of one dataset one after    *)
(* the other on the same file (variable queue), each in a fresh analyzer,  *)
(* and keeps what every call reported in the history variable trace.       *)
(*                                                                         *)
(* Strings are modelled by their shape: a cell is a record [f, v] whose    *)
(* form f says what kind of text it is and whose v tells texts of one form *)
(* apart.  Python's float(), int(), str.strip(), truthiness and the        *)
(* '.' in s test are functions of the form.                                *)
(*   "empty"  ""            "blank"  "  "        "NA"   "NA"               *)
(*   "nan"    "nan"         "int"    "7"         "padint" " 7"             *)
(*   "dec"    "7.5" (v in tenths)    "exp"   "7e3"      "word" a word      *)
(*   "emptyobj" "{}"        "jsonobj" valid JSON text   "badjson" "{oops"  *)
(*   "bar"    "|"                                                          *)
(* Python values that are not strings:                                     *)
(*   "None"   None          "pyint"  int v       "pyfloat" float v/10      *)
(*   "pyobj"  the object json.loads returned                               *)
(* An "empty" cell is an empty field of a record (written "" where it is   *)
(* the only field).  A line with nothing on it is the record <<>> of       *)
(* csv.reader; csv.DictReader and the dataframe readers skip it.           *)
(***************************************************************************)
EXTENDS Integers, Sequences, FiniteSets, TLC

VARIABLES
  file,                 \* the CSV file on disk: [readable, headers, records]
  queue,                \* scripts of the dataset still to be run on the file
  script,               \* the script whose analyzer is alive
  pc,                   \* position inside its run_complete_analysis
  headers,              \* self.headers (df.columns for a dataframe analyzer)
  data,                 \* self.data    (the rows of self.df)
  numeric_columns,      \* self.numeric_columns
  categorical_columns,  \* self.categorical_columns (Facebook ads)
  text_columns,         \* self.text_columns (Facebook posts, Twitter)
  trace                 \* history: every call made so far and what it reported

vars == <<file, queue, script, pc, headers, data, numeric_columns,
          categorical_columns, text_columns, trace>>

analyzer == <<headers, data, numeric_columns, categorical_columns, text_columns>>

-----------------------------------------------------------------------------
(* Bounds of the model. *)

MaxRows == 2

MaxColRows == 5

MaxGroups == 11

-----------------------------------------------------------------------------
(* Sequences. *)

Min(a, b) == IF a <= b THEN a ELSE b

Range(s) == {s[i] : i \in DOMAIN s}

Contains(s, x) == \E i \in DOMAIN s : s[i] = x

\* s[:n]
Take(s, n) == SubSeq(s, 1, Min(n, Len(s)))

\* s.index(x), for x in s
IndexOf(s, x) == CHOOSE i \in DOMAIN s : s[i] = x /\ \A j \in 1..(i-1) : s[j] # x

Indices(s) == [i \in 1..Len(s) |-> i]

\* [f(i) for i in range(len(s)) if p(i)]
Pick(s, p(_)) == LET keep == SelectSeq(Indices(s), p) IN [k \in DOMAIN keep |-> s[keep[k]]]

Count(s, x) == Cardinality({i \in DOMAIN s : s[i] = x})

\* s[lo] + ... + s[hi], halving the range
RECURSIVE SumRange(_, _, _)
SumRange(s, lo, hi) ==
  IF lo > hi THEN 0
  ELSE IF lo = hi THEN s[lo]
  ELSE LET mid == (lo + hi) \div 2 IN SumRange(s, lo, mid) + SumRange(s, mid + 1, hi)

\* sum(s) of a list of integers
Sum(s) == SumRange(s, 1, Len(s))

\* sorted(s, key=..., reverse=True) and sorted(s, key=lambda x: -...): by
\* weight, largest first; Python's sort is stable, so equal weights keep
\* their order in s
SortedDesc(s, weight(_)) ==
  LET before(j, i) == \/ weight(s[j]) > weight(s[i])
                      \/ weight(s[j]) = weight(s[i]) /\ j < i
      pos(i) == 1 + Cardinality({j \in DOMAIN s : before(j, i)})
  IN [p \in DOMAIN s |-> s[CHOOSE i \in DOMAIN s : pos(i) = p]]

\* list.sort(key=...): smallest first, stable
SortedAsc(s, weight(_)) ==
  LET before(j, i) == \/ weight(s[j]) < weight(s[i])
                      \/ weight(s[j]) = weight(s[i]) /\ j < i
      pos(i) == 1 + Cardinality({j \in DOMAIN s : before(j, i)})
  IN [p \in DOMAIN s |-> s[CHOOSE i \in DOMAIN s : pos(i) = p]]

\* the distinct values of s in the order of their first occurrence: the keys
\* of a dict (or defaultdict) filled by one pass over s
FirstSeen(s) == Pick(s, LAMBDA i : \A j \in 1..(i-1) : s[j] # s[i])


-----------------------------------------------------------------------------
(* Cells and Python's built-ins on them. *)

C(form, val) == [f |-> form, v |-> val]

None == C("None", 0)

\* str.strip()
strip(c) ==
  CASE c.f = "blank" -> C("empty", 0)
    [] c.f = "padint" -> C("int", c.v)
    [] OTHER -> c

\* bool(x): None, '' and 0 are false
truthy(c) ==
  CASE c.f \in {"None", "empty"} -> FALSE
    [] c.f \in {"pyint", "pyfloat"} -> c.v # 0
    [] OTHER -> TRUE

\* float(s) does not raise
float_ok(c) == c.f \in {"int", "padint", "dec", "exp", "nan", "pyint", "pyfloat"}

\* int(s) does not raise
int_ok(c) == c.f \in {"int", "padint", "pyint", "pyfloat"}

\* '.' in str(x)
has_dot(c) == c.f \in {"dec", "pyfloat"}

\* the value of a number, or of the text of a finite number, in tenths
tenths(c) ==
  CASE c.f \in {"int", "padint", "pyint"} -> 10 * c.v
    [] c.f \in {"dec", "pyfloat"} -> c.v
    [] c.f = "exp" -> 10000 * c.v
    [] OTHER -> 0

\* isinstance(x, (int, float))
is_number(c) == c.f \in {"pyint", "pyfloat"}

\* str(x)
str(c) ==
  CASE c.f = "pyint" -> C("int", c.v)
    [] c.f = "pyfloat" -> C("dec", c.v)
    [] OTHER -> c

\* h.strip() on a header name
strip_name(h) ==
  CASE h = " page_id" -> "page_id"
    [] h = "ad_id " -> "ad_id"
    [] OTHER -> h

-----------------------------------------------------------------------------
(* Facebook ads, pure Python: PythonAnalyzer.load_and_clean_data. *)

complex_fields == {"delivery_by_region", "demographic_distribution", "publisher_platforms"}

\* the null spellings of line 71, after strip
AdsNullForms == {"empty", "NA"}

SampleRows == 1000

SampleValues == 100

_parse_json_safe(value) ==
  CASE value.f \in {"empty", "emptyobj"} -> None
    [] value.f \notin {"emptyobj", "jsonobj", "badjson"} -> value
    [] value.f = "jsonobj" -> C("pyobj", value.v)
    [] OTHER -> value

\* lines 70-76: one cell of a record
AdsPyProcessCell(header, val) ==
  IF val.f = "empty" \/ strip(val).f \in AdsNullForms THEN None
  ELSE IF header \in complex_fields THEN _parse_json_safe(val)
  ELSE strip(val)

\* lines 68-78 without the cut of line 66: a record longer than the header
\* keeps all its cells
AdsPyProcessRowUncut(hs, row) ==
  [i \in 1..(IF Len(row) > Len(hs) THEN Len(row) ELSE Len(hs)) |->
     IF i > Len(hs) THEN strip(row[i])
     ELSE AdsPyProcessCell(hs[i], IF i <= Len(row) THEN row[i] ELSE C("empty", 0))]

\* lines 64-78: pad with '' or cut to the header length, then clean every cell
AdsPyProcessRow(hs, row) ==
  [i \in 1..Len(hs) |->
     AdsPyProcessCell(hs[i], IF i <= Len(row) THEN row[i] ELSE C("empty", 0))]

AdsPyHeaders(f) == [i \in DOMAIN f.headers |-> strip_name(f.headers[i])]

AdsPyRawData(f) ==
  LET hs == AdsPyHeaders(f)
  IN [r \in DOMAIN f.records |-> AdsPyProcessRow(hs, f.records[r])]

\* the test of line 104 with > in place of >=
AdsPyThresholdStrict(numeric_count, checked) == 5 * numeric_count > 4 * checked

\* line 104
AdsPyThreshold(numeric_count, checked) == 5 * numeric_count >= 4 * checked

\* lines 83-84
AdsPySample(raw_data) == Take(raw_data, SampleRows)

\* lines 86-112: whether column i of raw_data goes to numeric_columns
AdsPyIsNumeric(hs, raw_data, i) ==
  LET sample_data == AdsPySample(raw_data)
      vals == Pick(sample_data, LAMBDA r : sample_data[r][i] # None)
      checked == Take(vals, SampleValues)
      numeric_count == Cardinality({k \in DOMAIN checked : float_ok(checked[k][i])})
  IN /\ hs[i] \notin complex_fields
     /\ vals # <<>>
     /\ AdsPyThreshold(numeric_count, Len(checked))

\* line 109
AdsPyConvert(c) ==
  IF c = None THEN c
  ELSE IF has_dot(str(c)) THEN (IF float_ok(c) THEN C("pyfloat", tenths(c)) ELSE c)
  ELSE IF int_ok(c) THEN C("pyint", c.v) ELSE c

\* lines 106-110 for every numeric column
AdsPyConverted(hs, raw_data) ==
  [r \in DOMAIN raw_data |->
     [i \in DOMAIN raw_data[r] |->
        IF i <= Len(hs) /\ AdsPyIsNumeric(hs, raw_data, i) THEN AdsPyConvert(raw_data[r][i])
        ELSE raw_data[r][i]]]

\* the text "|"
Bar == C("bar", 0)

\* line 119: '|'.join(str(cell) if cell is not None else '' for cell in row);
\* a text is the sequence of its pieces (none for ''), "|" between two cells
RECURSIVE AdsPyDedupKey(_)
AdsPyDedupKey(row) ==
  IF row = <<>> THEN <<>>
  ELSE LET text == IF Head(row) = None THEN <<>> ELSE <<str(Head(row))>>
       IN IF Len(row) = 1 THEN text
          ELSE text \o <<Bar>> \o AdsPyDedupKey(Tail(row))

\* lines 116-122: a row is kept when no earlier row has its key
AdsPyDedup(rows) ==
  Pick(rows, LAMBDA r : \A q \in 1..(r-1) : AdsPyDedupKey(rows[q]) # AdsPyDedupKey(rows[r]))

-----------------------------------------------------------------------------
(* Facebook ads, pure Python: statistics and group-by.                     *)
(* Numbers are carried in tenths; a mean is the pair total/count and a     *)
(* variance the pair var_num/var_den, so that no division rounds.          *)

NoStats ==
  [count |-> 0, defined |-> FALSE, total |-> 0, var_num |-> 0, var_den |-> 1,
   std_nan |-> FALSE, min |-> 0, max |-> 0, median2 |-> 0]

SetMin(S) == CHOOSE x \in S : \A y \in S : x <= y

SetMax(S) == CHOOSE x \in S : \A y \in S : x >= y

\* sorted(xs)[k], k counted from 0
Sorted0(xs, k) ==
  CHOOSE x \in Range(xs) :
    /\ Cardinality({i \in DOMAIN xs : xs[i] < x}) <= k
    /\ Cardinality({i \in DOMAIN xs : xs[i] <= x}) > k

\* lines 141-147: the variance is sum((x - mean)**2) / n, the mean total/n;
\* var_num/var_den is that value with numerator and denominator times n*n
PopulationVariance(xs) ==
  LET n == Len(xs)
      total == Sum(xs)
  IN [num |-> Sum([i \in DOMAIN xs |-> (n * xs[i] - total) * (n * xs[i] - total)]),
      den |-> n * n * n]

\* lines 135-153: PythonAnalyzer._fast_stats on a list of numbers (in tenths)
_fast_stats(xs) ==
  LET n == Len(xs) IN
  IF n = 0 THEN NoStats
  ELSE IF n = 1
    THEN [count |-> 1, defined |-> TRUE, total |-> xs[1], var_num |-> 0, var_den |-> 1,
          std_nan |-> FALSE, min |-> xs[1], max |-> xs[1], median2 |-> 2 * xs[1]]
  ELSE [count |-> n, defined |-> TRUE, total |-> Sum(xs),
        var_num |-> PopulationVariance(xs).num, var_den |-> PopulationVariance(xs).den,
        std_nan |-> FALSE, min |-> SetMin(Range(xs)), max |-> SetMax(Range(xs)),
        median2 |-> IF n % 2 = 1 THEN 2 * Sorted0(xs, n \div 2)
                    ELSE Sorted0(xs, n \div 2 - 1) + Sorted0(xs, n \div 2)]

\* [row[idx] for row in rows if isinstance(row[idx], (int, float))], in tenths
AdsPyNumbers(rows, idx) ==
  LET vals == Pick(rows, LAMBDA r : is_number(rows[r][idx]))
  IN [k \in DOMAIN vals |-> tenths(vals[k][idx])]

\* lines 173-185: one line of the NUMERIC STATISTICS table
AdsPyNumericLine(self, col) ==
  LET idx == IndexOf(self.headers, col)
      vals == AdsPyNumbers(self.data, idx)
      s == _fast_stats(vals)
  IN [col |-> col, count |-> s.count, missing |-> Len(self.data) - s.count, stats |-> s]

\* Counter(vals).most_common(1)[0][0]: the most frequent value, the one seen
\* first among equally frequent ones
MostCommon(vals) ==
  LET keys == FirstSeen(vals) IN SortedDesc(keys, LAMBDA x : Count(vals, x))[1]

\* lines 193-205: one line of the CATEGORICAL STATISTICS table
AdsPyCategoricalLine(self, col) ==
  LET idx == IndexOf(self.headers, col)
      rows == Pick(self.data, LAMBDA r : self.data[r][idx] # None)
      vals == [k \in DOMAIN rows |-> str(rows[k][idx])]
  IN [col |-> col, count |-> Len(vals), missing |-> Len(self.data) - Len(vals),
      unique |-> Cardinality(Range(vals)),
      top |-> IF vals = <<>> THEN None ELSE MostCommon(vals)]

\* line 161
AdsPyMissing(self) ==
  Sum([r \in DOMAIN self.data |->
         Cardinality({i \in DOMAIN self.data[r] : self.data[r][i] = None})])

\* lines 155-209: PythonAnalyzer.compute_column_statistics; raised: the
\* division of line 166 by total_cells = 0
AdsPy_compute_column_statistics(self) ==
  LET total_cells == Len(self.data) * Len(self.headers) IN
  IF total_cells = 0 THEN [raised |-> TRUE]
  ELSE [raised |-> FALSE, rows |-> Len(self.data), columns |-> Len(self.headers),
        missing |-> AdsPyMissing(self),
        numeric |-> [k \in DOMAIN self.numeric_columns |->
                       AdsPyNumericLine(self, self.numeric_columns[k])],
        categorical |-> [k \in DOMAIN Take(self.categorical_columns, 5) |->
                           AdsPyCategoricalLine(self, self.categorical_columns[k])]]

TopGroups == 10

\* line 225: the key of a row
AdsPyGroupKey(row, indices) ==
  [k \in DOMAIN indices |-> IF row[indices[k]] = None THEN None ELSE str(row[indices[k]])]

\* the groups of line 228 left in the order they were met
AdsPyGroupListUnsorted(keys) == FirstSeen(keys)

\* the groups of line 228 without those of a missing grouping cell
AdsPyGroupListDropNone(keys) ==
  SortedDesc(SelectSeq(FirstSeen(keys),
                       LAMBDA key : \A k \in DOMAIN key : key[k] # None),
             LAMBDA key : Count(keys, key))

\* line 228: the groups, largest first
AdsPyGroupList(keys) ==
  SortedDesc(FirstSeen(keys), LAMBDA key : Count(keys, key))

\* lines 243-245: the 'Top 10 Groups' list
AdsPyTopGroups(group_list) == Take(group_list, TopGroups)

\* a check that takes every grouping column for missing
MissingColumnsAll(self, group_cols) == group_cols

\* line 215 (pandas 186, polars 211):
\* missing = [c for c in group_cols if c not in self.headers]
MissingColumns(self, group_cols) ==
  SelectSeq(group_cols, LAMBDA c : ~Contains(self.headers, c))

\* lines 211-257: PythonAnalyzer.perform_groupby_analysis
AdsPy_perform_groupby_analysis(self, group_cols) ==
  LET missing == MissingColumns(self, group_cols) IN
  IF missing # <<>> THEN [missing |-> missing, ngroups |-> 0, top |-> <<>>, sizes |-> NoStats]
  ELSE
    LET indices == [k \in DOMAIN group_cols |-> IndexOf(self.headers, group_cols[k])]
        keys == [r \in DOMAIN self.data |-> AdsPyGroupKey(self.data[r], indices)]
        group_list == AdsPyGroupList(keys)
        sizes == [g \in DOMAIN group_list |-> Count(keys, group_list[g])]
        top == AdsPyTopGroups(group_list)
    IN [missing |-> <<>>, ngroups |-> Len(group_list),
        top |-> [g \in DOMAIN top |-> [key |-> top[g], rows |-> sizes[g]]],
        sizes |-> _fast_stats(sizes)]

-----------------------------------------------------------------------------
(* Facebook ads, pure Python: the load as a whole, and the choice of the   *)
(* additional grouping column.                                             *)

\* lines 42-133: PythonAnalyzer.load_and_clean_data.  A file that cannot be
\* opened raises inside the try: the error is printed and the analyzer is
\* left as it was.
AdsPy_load_and_clean_data(self, f) ==
  IF ~f.readable THEN self
  ELSE
    LET hs == AdsPyHeaders(f)
        raw_data == AdsPyRawData(f)
        numeric == Pick(hs, LAMBDA i : AdsPyIsNumeric(hs, raw_data, i))
        categorical == Pick(hs, LAMBDA i : ~AdsPyIsNumeric(hs, raw_data, i))
    IN [self EXCEPT !.headers = hs,
                    !.numeric_columns = self.numeric_columns \o numeric,
                    !.categorical_columns = self.categorical_columns \o categorical,
                    !.data = AdsPyDedup(AdsPyConverted(hs, raw_data))]

GroupingColumns == <<"page_id", "ad_id">>

CandidateColumns == 10

MinUnique == 2

MaxUnique == 20

\* lines 297-302: len(set(vals)) of the truthy cells of the first 1000 rows
AdsPyUnique(self, col) ==
  LET idx == IndexOf(self.headers, col)
      sample == Take(self.data, SampleRows)
  IN Cardinality({str(sample[r][idx]) : r \in {q \in DOMAIN sample : truthy(sample[q][idx])}})

\* lines 294-306: the candidates, fewest distinct values first
AdsPyCandidates(self) ==
  LET first == Take(self.categorical_columns, CandidateColumns)
      good(col) == /\ ~Contains(GroupingColumns, col)
                   /\ AdsPyUnique(self, col) >= MinUnique
                   /\ AdsPyUnique(self, col) <= MaxUnique
  IN SortedAsc(SelectSeq(first, good), LAMBDA col : AdsPyUnique(self, col))


-----------------------------------------------------------------------------
(* Facebook posts, pure Python: SocialMediaPostsAnalyzer.                  *)
(* csv.DictReader gives one dict per record; the model keeps a row as the  *)
(* list of its values in header order, None where the record is short.     *)

FirstRows == 100

RatioNum == 8

RatioDen == 10

\* lines 10-12: _to_num(v) is not None
PostsIsNum(v) ==
  /\ truthy(v)
  /\ IF has_dot(v) THEN float_ok(v) ELSE int_ok(v)

\* lines 10-12: the value _to_num returns, in tenths (0 where it returns None)
PostsNum(v) == IF PostsIsNum(v) THEN tenths(v) ELSE 0

\* restval of csv.DictReader
DictRow(hs, row) == [i \in 1..Len(hs) |-> IF i <= Len(row) THEN row[i] ELSE None]

\* the test of line 39 with >= in place of >
RatioAtLeast(numeric, sampled) == RatioDen * numeric >= RatioNum * sampled

\* line 39: numeric_ratio > 0.8
RatioAbove(numeric, sampled) == RatioDen * numeric > RatioNum * sampled

\* lines 37-38 for column i
PostsIsNumeric(rows, i) ==
  LET first == Take(rows, FirstRows)
      samples == Pick(first, LAMBDA r : truthy(first[r][i]))
      numeric == Cardinality({k \in DOMAIN samples : PostsIsNum(samples[k][i])})
  IN samples # <<>> /\ RatioAbove(numeric, Len(samples))

\* lines 26-42: load_and_clean_data (open() raising is the caller's matter)
Posts_load_and_clean_data(self, f) ==
  LET hs == f.headers
      rows == [r \in DOMAIN f.records |-> DictRow(hs, f.records[r])]
  IN [self EXCEPT !.headers = hs, !.data = rows,
        !.numeric_columns = self.numeric_columns \o Pick(hs, LAMBDA i : PostsIsNumeric(rows, i)),
        !.text_columns = self.text_columns \o Pick(hs, LAMBDA i : ~PostsIsNumeric(rows, i))]

\* [self._to_num(row[col]) for row in rows if self._to_num(row[col]) is not None]
PostsNumbers(rows, idx) ==
  LET vals == Pick(rows, LAMBDA r : PostsIsNum(rows[r][idx]))
  IN [k \in DOMAIN vals |-> PostsNum(vals[k][idx])]

\* statistics.mean and statistics.stdev (divisor n - 1; 0 for one value), the
\* variance with numerator and denominator times n*n
SampleStats(xs) ==
  LET n == Len(xs) IN
  IF n = 0 THEN NoStats
  ELSE [count |-> n, defined |-> TRUE, total |-> Sum(xs),
        var_num |-> IF n = 1 THEN 0 ELSE PopulationVariance(xs).num,
        var_den |-> IF n = 1 THEN 1 ELSE n * n * (n - 1),
        std_nan |-> FALSE, min |-> SetMin(Range(xs)), max |-> SetMax(Range(xs)),
        median2 |-> 0]

\* lines 44-68: compute_overall_statistics
Posts_compute_overall_statistics(self) ==
  [numeric |-> [k \in DOMAIN self.numeric_columns |->
                  LET col == self.numeric_columns[k]
                  IN [col |-> col,
                      stats |-> SampleStats(PostsNumbers(self.data, IndexOf(self.headers, col)))]],
   text |-> [k \in DOMAIN self.text_columns |->
               LET col == self.text_columns[k]
                   idx == IndexOf(self.headers, col)
                   rows == Pick(self.data, LAMBDA r : truthy(self.data[r][idx]))
                   vals == [q \in DOMAIN rows |-> rows[q][idx]]
               IN [col |-> col, count |-> Len(vals), unique |-> Cardinality(Range(vals)),
                   top |-> IF vals = <<>> THEN None ELSE MostCommon(vals)]]]

ListedGroups == 10

\* the values of the columns cols of every row: the keys the rows are grouped by
PostsKeys(self, cols) ==
  [r \in DOMAIN self.data |->
     [k \in DOMAIN cols |-> self.data[r][IndexOf(self.headers, cols[k])]]]

\* the mean and the count of the numbers of column col in the rows of one group
PostsGroupStat(self, keys, key, col) ==
  LET rows == Pick(self.data, LAMBDA r : keys[r] = key)
      xs == PostsNumbers(rows, IndexOf(self.headers, col))
  IN [col |-> col, total |-> Sum(xs), count |-> Len(xs)]

\* lines 70-88 and 90-108: group by cols, report on the first ten groups met
\* and the first ncols numeric columns
PostsGroupReport(self, cols, ncols) ==
  LET missing == SelectSeq(cols, LAMBDA c : ~Contains(self.headers, c)) IN
  IF missing # <<>> THEN [missing |-> missing, ngroups |-> 0, listed |-> <<>>]
  ELSE
    LET keys == PostsKeys(self, cols)
        groups == FirstSeen(keys)
        shown == IF self.numeric_columns = <<>> THEN <<>> ELSE Take(groups, ListedGroups)
        columns == Take(self.numeric_columns, ncols)
    IN [missing |-> <<>>, ngroups |-> Len(groups),
        listed |-> [g \in DOMAIN shown |->
                      [key |-> shown[g], rows |-> Count(keys, shown[g]),
                       stats |-> [c \in DOMAIN columns |->
                                    PostsGroupStat(self, keys, shown[g], columns[c])]]]]

Posts_analyze_by_facebook_id(self) == PostsGroupReport(self, <<"Facebook_Id">>, 3)

Posts_analyze_by_facebook_and_post_id(self) ==
  PostsGroupReport(self, <<"Facebook_Id", "post_id">>, 2)

\* lines 110-133: every category, most posts first, and its statistics
Posts_analyze_by_page_category(self) ==
  IF ~Contains(self.headers, "Page Category")
    THEN [missing |-> <<"Page Category">>, ngroups |-> 0, listed |-> <<>>]
  ELSE
    LET keys == PostsKeys(self, <<"Page Category">>)
        ranked == SortedDesc(FirstSeen(keys), LAMBDA key : Count(keys, key))
    IN [missing |-> <<>>, ngroups |-> Len(ranked),
        listed |-> [g \in DOMAIN ranked |-> [key |-> ranked[g], rows |-> Count(keys, ranked[g])]]]

\* sum(self._to_num(row[col]) or 0 for row in the group)
PostsTotal(self, keys, key, col) ==
  LET rows == Pick(self.data, LAMBDA r : keys[r] = key)
  IN Sum(PostsNumbers(rows, IndexOf(self.headers, col)))

\* lines 150-165: the pages ranked by the total of Likes, Comments and Shares
Posts_compare_groups_analysis(self) ==
  IF ~(Contains(self.headers, "Facebook_Id") /\ Contains(self.headers, "Likes"))
    THEN [ranked |-> <<>>]
  ELSE
    LET keys == PostsKeys(self, <<"Facebook_Id">>)
        metrics == SelectSeq(<<"Likes", "Comments", "Shares">>,
                             LAMBDA c : Contains(self.headers, c))
        total(key) == Sum([m \in DOMAIN metrics |-> PostsTotal(self, keys, key, metrics[m])])
        ranked == Take(SortedDesc(FirstSeen(keys), total), ListedGroups)
    IN [ranked |-> [g \in DOMAIN ranked |-> [key |-> ranked[g], total |-> total(ranked[g])]]]

-----------------------------------------------------------------------------
(* Twitter posts, pure Python: TwitterPostsAnalyzer.                       *)

\* line 11, after strip().lower(): "", "na", "nan", ...
TwNullForms == {"empty", "NA", "nan"}

\* lines 18-21: one value of a record
TwPyCleanCell(v) ==
  IF v = None THEN None
  ELSE IF strip(v).f \in TwNullForms THEN None
  ELSE strip(v)

\* lines 17-22
TwPyCleaned(f) ==
  [r \in DOMAIN f.records |->
     LET row == DictRow(f.headers, f.records[r])
     IN [i \in DOMAIN row |-> TwPyCleanCell(row[i])]]

\* lines 24-31: a row is kept when no earlier row has the same tuple of values
TwPyUnique(cleaned) == Pick(cleaned, LAMBDA r : \A q \in 1..(r-1) : cleaned[q] # cleaned[r])

\* lines 56-58
_is_num(v) == float_ok(v)

\* lines 49-51 for column i
TwPyIsNumeric(rows, i) ==
  LET first == Take(rows, FirstRows)
      vals == Pick(first, LAMBDA r : truthy(first[r][i]))
      numeric == Cardinality({k \in DOMAIN vals : _is_num(vals[k][i])})
  IN vals # <<>> /\ RatioAbove(numeric, Len(vals))

\* lines 36-41: float(v), None when it raises
TwPyConvert(v) ==
  IF v = None THEN None
  ELSE IF float_ok(v) THEN C("pyfloat", tenths(v)) ELSE None

\* lines 9-44: load_and_clean_data (open() raising is the caller's matter)
TwPy_load_and_clean_data(self, f) ==
  LET hs == f.headers
      unique == TwPyUnique(TwPyCleaned(f))
  IN [self EXCEPT !.headers = hs,
        !.numeric_columns = Pick(hs, LAMBDA i : TwPyIsNumeric(unique, i)),
        !.text_columns = Pick(hs, LAMBDA i : ~TwPyIsNumeric(unique, i)),
        !.data = [r \in DOMAIN unique |->
                    [i \in DOMAIN hs |->
                       IF TwPyIsNumeric(unique, i) THEN TwPyConvert(unique[r][i])
                       ELSE unique[r][i]]]]

\* lines 59-61: _get_num(v) is not None
TwHasNum(v) == v # None /\ float_ok(v)

\* [self._get_num(row[col]) for row in rows if self._get_num(row[col]) is not None]
TwPyNumbers(rows, idx) ==
  LET vals == Pick(rows, LAMBDA r : TwHasNum(rows[r][idx]))
  IN [k \in DOMAIN vals |-> tenths(vals[k][idx])]

\* lines 68-86: compute_overall_statistics
TwPy_compute_overall_statistics(self) ==
  [numeric |-> [k \in DOMAIN self.numeric_columns |->
                  LET col == self.numeric_columns[k]
                  IN [col |-> col,
                      stats |-> SampleStats(TwPyNumbers(self.data, IndexOf(self.headers, col)))]],
   text |-> [k \in DOMAIN self.text_columns |->
               LET col == self.text_columns[k]
                   idx == IndexOf(self.headers, col)
                   rows == Pick(self.data, LAMBDA r : truthy(self.data[r][idx]))
                   vals == [q \in DOMAIN rows |-> rows[q][idx]]
               IN [col |-> col, count |-> Len(vals), unique |-> Cardinality(Range(vals)),
                   top |-> IF vals = <<>> THEN None ELSE MostCommon(vals)]]]

TopN == 10

\* line 91: tuple(row[c] for c in by_cols), for every row
TwKeys(self, by_cols) ==
  [r \in DOMAIN self.data |->
     [k \in DOMAIN by_cols |-> self.data[r][IndexOf(self.headers, by_cols[k])]]]

\* lines 88-98: group_and_print; d is the dict it returns (its keys in the
\* order they were first met), ngroups and rows what it prints
TwPy_group_and_print(self, by_cols) ==
  LET keys == TwKeys(self, by_cols)
      d == FirstSeen(keys)
      top == Take(SortedDesc(d, LAMBDA key : Count(keys, key)), TopN)
  IN [ngroups |-> Len(d), d |-> d,
      rows |-> [g \in DOMAIN top |-> [key |-> top[g], count |-> Count(keys, top[g])]]]

StatColumns == 3

\* lines 100-110: group_numeric_stats(d, num_cols): the first ten keys of d
TwPy_group_numeric_stats(self, by_cols, d, num_cols) ==
  LET keys == TwKeys(self, by_cols)
      cols == Take(num_cols, StatColumns)
      shown == Take(d, TopN)
      numbers(key, col) ==
        TwPyNumbers(Pick(self.data, LAMBDA r : keys[r] = key), IndexOf(self.headers, col))
  IN [c \in DOMAIN cols |->
        LET with == SelectSeq(shown, LAMBDA key : numbers(key, cols[c]) # <<>>)
        IN [col |-> cols[c],
            rows |-> [g \in DOMAIN with |->
                        [key |-> with[g], stats |-> SampleStats(numbers(with[g], cols[c]))]]]]

AllMetrics == <<"retweetCount", "replyCount", "likeCount", "quoteCount", "bookmarkCount">>

\* line 118: sum(self._get_num(row[m]) or 0 for m in metrics if m in row)
TwRowEngagement(self, row, metrics) ==
  LET present == SelectSeq(metrics, LAMBDA m : Contains(self.headers, m))
  IN Sum([k \in DOMAIN present |->
            LET v == row[IndexOf(self.headers, present[k])]
            IN IF TwHasNum(v) THEN tenths(v) ELSE 0])

\* line 115: row.get(group_col, 'N/A')
TwPyEngagementKey(self, row, group_col) ==
  IF Contains(self.headers, group_col) THEN row[IndexOf(self.headers, group_col)]
  ELSE C("word", 0)

\* lines 112-121: engagement_by_group: the ten groups with the most rows
TwPy_engagement_by_group(self, group_col, metrics) ==
  LET keys == [r \in DOMAIN self.data |-> TwPyEngagementKey(self, self.data[r], group_col)]
      top == Take(SortedDesc(FirstSeen(keys), LAMBDA key : Count(keys, key)), TopN)
      total(key) ==
        Sum([r \in DOMAIN self.data |->
               IF keys[r] = key THEN TwRowEngagement(self, self.data[r], metrics) ELSE 0])
  IN [rows |-> [g \in DOMAIN top |->
                  [key |-> top[g], posts |-> Count(keys, top[g]), total |-> total(top[g])]]]

-----------------------------------------------------------------------------
(* Facebook ads, pandas: PandasAnalyzer.  self.df is kept as its column    *)
(* names (headers) and its rows (data); NaN is None.  The files a          *)
(* dataframe script is run on hold plain cells only (whole numbers,        *)
(* decimals, words, empty cells) in rows as long as the header.            *)

\* lines 55-61: na_values with keep_default_na; the text is not stripped
AdsPdNaForms == {"empty", "NA", "nan"}

AdsPdHeaders(f) == [i \in DOMAIN f.headers |-> strip_name(f.headers[i])]

\* lines 36-41
AdsPd_parse_json_safe(value) == IF value = None THEN None ELSE _parse_json_safe(value)

\* lines 55-73: read_csv(dtype=str) and the JSON fields
AdsPdRead(f) ==
  LET hs == AdsPdHeaders(f)
  IN [r \in DOMAIN f.records |->
        [i \in DOMAIN hs |->
           LET c == IF i <= Len(f.records[r]) THEN f.records[r][i] ELSE None
               v == IF c.f \in AdsPdNaForms THEN None ELSE c
           IN IF hs[i] \in complex_fields THEN AdsPd_parse_json_safe(v) ELSE v]]

\* pd.to_numeric takes the text
PdNumericOk(c) == c.f \in {"int", "padint", "dec", "exp"}

\* lines 77-98: whether column i goes to numeric_columns; to_numeric with
\* errors='raise' succeeds when every one of the values parses
AdsPdIsNumeric(hs, rows, i) ==
  LET sample_df == Take(rows, SampleRows)
      sample_non_null == Pick(sample_df, LAMBDA r : sample_df[r][i] # None)
      checked == Take(sample_non_null, SampleValues)
  IN /\ hs[i] \notin complex_fields
     /\ sample_non_null # <<>>
     /\ \A k \in DOMAIN checked : PdNumericOk(checked[k][i])

\* line 95: pd.to_numeric(errors='coerce') on a whole column: int64 when
\* every cell is a whole number, float64 otherwise
PdToNumeric(rows, i, r) ==
  LET whole == \A q \in DOMAIN rows : rows[q][i] # None /\ rows[q][i].f \in {"int", "padint"}
      c == rows[r][i]
  IN IF c = None \/ ~PdNumericOk(c) THEN None
     ELSE IF whole THEN C("pyint", c.v) ELSE C("pyfloat", tenths(c))

\* line 103: drop_duplicates keeps the first of equal rows
PdDropDuplicates(rows) == Pick(rows, LAMBDA r : \A q \in 1..(r-1) : rows[q] # rows[r])

\* lines 43-115: PandasAnalyzer.load_and_clean_data; an error is printed and
\* leaves self.df as it was (None)
AdsPd_load_and_clean_data(self, f) ==
  IF ~f.readable THEN self
  ELSE
    LET hs == AdsPdHeaders(f)
        rows == AdsPdRead(f)
        converted == [r \in DOMAIN rows |->
                        [i \in DOMAIN hs |->
                           IF AdsPdIsNumeric(hs, rows, i) THEN PdToNumeric(rows, i, r)
                           ELSE rows[r][i]]]
    IN [self EXCEPT !.headers = hs,
          !.numeric_columns = self.numeric_columns \o Pick(hs, LAMBDA i : AdsPdIsNumeric(hs, rows, i)),
          !.categorical_columns =
             self.categorical_columns \o Pick(hs, LAMBDA i : ~AdsPdIsNumeric(hs, rows, i)),
          !.data = PdDropDuplicates(converted)]

\* Series.describe(): std is the sample standard deviation (divisor n - 1),
\* NaN for fewer than two values
describe(xs) ==
  LET n == Len(xs) IN
  IF n = 0 THEN [NoStats EXCEPT !.std_nan = TRUE]
  ELSE [count |-> n, defined |-> TRUE, total |-> Sum(xs),
        var_num |-> IF n = 1 THEN 0 ELSE PopulationVariance(xs).num,
        var_den |-> IF n = 1 THEN 1 ELSE n * n * (n - 1),
        std_nan |-> n = 1, min |-> SetMin(Range(xs)), max |-> SetMax(Range(xs)),
        median2 |-> IF n % 2 = 1 THEN 2 * Sorted0(xs, n \div 2)
                    ELSE Sorted0(xs, n \div 2 - 1) + Sorted0(xs, n \div 2)]

\* the values of a column that are not NaN, in tenths
PdNumbers(rows, idx) ==
  LET vals == Pick(rows, LAMBDA r : rows[r][idx] # None)
  IN [k \in DOMAIN vals |-> tenths(vals[k][idx])]

\* lines 136-149: one line of the NUMERIC STATISTICS table
AdsPdNumericLine(self, col) ==
  LET s == describe(PdNumbers(self.data, IndexOf(self.headers, col)))
  IN [col |-> col, count |-> s.count, missing |-> Len(self.data) - s.count, stats |-> s]

\* lines 158-176: one line of the CATEGORICAL STATISTICS table (the top value
\* is left out: value_counts does not fix the order of equally frequent values)
AdsPdCategoricalLine(self, col) ==
  LET idx == IndexOf(self.headers, col)
      non_null == Pick(self.data, LAMBDA r : self.data[r][idx] # None)
  IN [col |-> col, count |-> Len(non_null), missing |-> Len(self.data) - Len(non_null),
      unique |-> Cardinality({non_null[k][idx] : k \in DOMAIN non_null})]

\* lines 117-180: PandasAnalyzer.compute_column_statistics
AdsPd_compute_column_statistics(self) ==
  [raised |-> FALSE, rows |-> Len(self.data), columns |-> Len(self.headers),
   missing |-> AdsPyMissing(self),
   numeric |-> [k \in DOMAIN self.numeric_columns |->
                  AdsPdNumericLine(self, self.numeric_columns[k])],
   categorical |-> [k \in DOMAIN Take(self.categorical_columns, 5) |->
                      AdsPdCategoricalLine(self, self.categorical_columns[k])]]

\* the sizes of the groups of rows with equal values in the columns; NaN is
\* a value of its own when nulls is TRUE, and its rows are left out otherwise
FrameGroupKeys(self, group_cols, nulls) ==
  LET indices == [k \in DOMAIN group_cols |-> IndexOf(self.headers, group_cols[k])]
      kept == Pick(self.data,
                   LAMBDA r : nulls \/ \A k \in DOMAIN indices : self.data[r][indices[k]] # None)
  IN [r \in DOMAIN kept |-> [k \in DOMAIN indices |-> kept[r][indices[k]]]]

\* group sizes, largest first (the order of equally large groups is not
\* fixed by sort_values, so the sizes are listed without their keys)
FrameGroupSizes(keys) ==
  LET groups == FirstSeen(keys)
      sorted == SortedDesc(groups, LAMBDA key : Count(keys, key))
  IN [g \in DOMAIN sorted |-> Count(keys, sorted[g])]

\* lines 182-239: PandasAnalyzer.perform_groupby_analysis, groupby(dropna=False)
AdsPd_perform_groupby_analysis(self, group_cols) ==
  LET missing == MissingColumns(self, group_cols) IN
  IF missing # <<>> THEN [missing |-> missing, ngroups |-> 0, top |-> <<>>, sizes |-> NoStats]
  ELSE
    LET group_sizes == FrameGroupSizes(FrameGroupKeys(self, group_cols, TRUE))
        top == Take(group_sizes, TopGroups)
    IN [missing |-> <<>>, ngroups |-> Len(group_sizes),
        top |-> [g \in DOMAIN top |-> [key |-> <<>>, rows |-> top[g]]],
        sizes |-> describe(group_sizes)]

\* lines 279-282: nunique of the first 1000 values that are not NaN
AdsPdUnique(self, col) ==
  LET idx == IndexOf(self.headers, col)
      sample_data == Take(Pick(self.data, LAMBDA r : self.data[r][idx] # None), SampleRows)
  IN Cardinality({sample_data[k][idx] : k \in DOMAIN sample_data})

\* lines 276-287: the candidates, fewest distinct values first
AdsPdCandidates(self) ==
  LET first == Take(self.categorical_columns, CandidateColumns)
      good(col) == /\ ~Contains(GroupingColumns, col)
                   /\ AdsPdUnique(self, col) >= MinUnique
                   /\ AdsPdUnique(self, col) <= MaxUnique
  IN SortedAsc(SelectSeq(first, good), LAMBDA col : AdsPdUnique(self, col))

-----------------------------------------------------------------------------
(* Facebook ads, polars: PolarsAnalyzer.  pl.read_csv infers one dtype per *)
(* column; null is None.  DataFrame.unique() does not fix the order of the *)
(* rows it keeps; the model keeps them in file order, and nothing it       *)
(* reports of a dataframe depends on the order of its rows.                *)

\* lines 63-70: null_values
AdsPlNullForms == {"empty", "NA"}

\* the dtype read_csv infers for a column from its cells that are not null
PlDtype(cells) ==
  IF cells = {} THEN "String"
  ELSE IF \A c \in cells : c.f = "int" THEN "Int64"
  ELSE IF \A c \in cells : c.f \in {"int", "dec", "exp"} THEN "Float64"
  ELSE "String"

\* a cell read into a column of the dtype
PlValue(dtype, c) ==
  CASE c = None -> None
    [] dtype = "Int64" -> C("pyint", c.v)
    [] dtype = "Float64" -> C("pyfloat", tenths(c))
    [] OTHER -> c

PlColumn(f, i, null_forms) ==
  {f.records[r][i] : r \in {q \in DOMAIN f.records : f.records[q][i].f \notin null_forms}}

\* pl.read_csv(..., null_values=...)
PlRead(f, null_forms) ==
  [r \in DOMAIN f.records |->
     [i \in DOMAIN f.headers |->
        LET c == f.records[r][i]
        IN PlValue(PlDtype(PlColumn(f, i, null_forms)),
                   IF c.f \in null_forms THEN None ELSE c)]]

\* line 92: DataFrame.unique()
PlUnique(rows) == Pick(rows, LAMBDA r : \A q \in 1..(r-1) : rows[q] # rows[r])

\* lines 99-104: numeric by dtype
PlIsNumericDtype(f, i, null_forms) == PlDtype(PlColumn(f, i, null_forms)) \in {"Int64", "Float64"}

\* lines 50-117: PolarsAnalyzer.load_and_clean_data, for a file that can be
\* read (it raises again what it caught otherwise)
AdsPl_load_and_clean_data(self, f) ==
  LET hs == [i \in DOMAIN f.headers |-> strip_name(f.headers[i])]
  IN [self EXCEPT !.headers = hs,
        !.data = PlUnique(PlRead(f, AdsPlNullForms)),
        !.numeric_columns = Pick(hs, LAMBDA i : PlIsNumericDtype(f, i, AdsPlNullForms)),
        !.categorical_columns = Pick(hs, LAMBDA i : ~PlIsNumericDtype(f, i, AdsPlNullForms))]

\* lines 143-169: one line of the NUMERIC STATISTICS table; describe() of
\* polars has the sample standard deviation, null for fewer than two values
AdsPlNumericLine(self, col) ==
  LET s == describe(PdNumbers(self.data, IndexOf(self.headers, col)))
  IN [col |-> col, count |-> s.count, missing |-> Len(self.data) - s.count, stats |-> s]

\* lines 177-199: one line of the CATEGORICAL STATISTICS table; value_counts
\* counts null as a value
AdsPlCategoricalLine(self, col) ==
  LET idx == IndexOf(self.headers, col)
      non_null == Pick(self.data, LAMBDA r : self.data[r][idx] # None)
  IN [col |-> col, count |-> Len(non_null), missing |-> Len(self.data) - Len(non_null),
      unique |-> Cardinality({self.data[r][idx] : r \in DOMAIN self.data})]

\* lines 119-204: PolarsAnalyzer.compute_column_statistics; raised: the
\* division of line 133 by total_cells = 0
AdsPl_compute_column_statistics(self) ==
  LET total_cells == Len(self.data) * Len(self.headers) IN
  IF total_cells = 0 THEN [raised |-> TRUE]
  ELSE [raised |-> FALSE, rows |-> Len(self.data), columns |-> Len(self.headers),
        missing |-> AdsPyMissing(self),
        numeric |-> [k \in DOMAIN self.numeric_columns |->
                       AdsPlNumericLine(self, self.numeric_columns[k])],
        categorical |-> [k \in DOMAIN Take(self.categorical_columns, 5) |->
                           AdsPlCategoricalLine(self, self.categorical_columns[k])]]

\* lines 206-280: PolarsAnalyzer.perform_groupby_analysis; group_by keeps
\* null as a key
AdsPl_perform_groupby_analysis(self, group_cols) ==
  LET missing == MissingColumns(self, group_cols) IN
  IF missing # <<>> THEN [missing |-> missing, ngroups |-> 0, top |-> <<>>, sizes |-> NoStats]
  ELSE
    LET group_sizes == FrameGroupSizes(FrameGroupKeys(self, group_cols, TRUE))
        top == Take(group_sizes, TopGroups)
    IN [missing |-> <<>>, ngroups |-> Len(group_sizes),
        top |-> [g \in DOMAIN top |-> [key |-> <<>>, rows |-> top[g]]],
        sizes |-> describe(group_sizes)]

\* line 309: n_unique() of the whole column, null counted as a value
AdsPlUnique(self, col) ==
  LET idx == IndexOf(self.headers, col)
  IN Cardinality({self.data[r][idx] : r \in DOMAIN self.data})

\* lines 305-316: the candidates, fewest distinct values first
AdsPlCandidates(self) ==
  LET first == Take(self.categorical_columns, CandidateColumns)
      good(col) == /\ ~Contains(GroupingColumns, col)
                   /\ AdsPlUnique(self, col) >= MinUnique
                   /\ AdsPlUnique(self, col) <= MaxUnique
  IN SortedAsc(SelectSeq(first, good), LAMBDA col : AdsPlUnique(self, col))

-----------------------------------------------------------------------------
(* Twitter posts, pandas: TwitterPostsAnalyzer of pandas_stats.py.         *)

\* line 12: na_values with keep_default_na; the text is not stripped
TwPdNaForms == {"empty", "NA", "nan"}

\* the dtype read_csv infers for a column: cells are those that are not NaN,
\* holes tells whether some cell is NaN
PdDtype(cells, holes) ==
  IF cells = {} THEN "float64"
  ELSE IF \A c \in cells : c.f = "int" THEN (IF holes THEN "float64" ELSE "int64")
  ELSE IF \A c \in cells : c.f \in {"int", "dec", "exp"} THEN "float64"
  ELSE "object"

PdValue(dtype, c) ==
  CASE c = None -> None
    [] dtype = "int64" -> C("pyint", c.v)
    [] dtype = "float64" -> C("pyfloat", tenths(c))
    [] OTHER -> c

PdColumnDtype(f, i, na_forms) ==
  PdDtype({f.records[r][i] : r \in {q \in DOMAIN f.records : f.records[q][i].f \notin na_forms}},
          \E r \in DOMAIN f.records : f.records[r][i].f \in na_forms)

\* line 13: pd.read_csv(..., na_values=...)
PdRead(f, na_forms) ==
  [r \in DOMAIN f.records |->
     [i \in DOMAIN f.headers |->
        LET c == f.records[r][i]
        IN PdValue(PdColumnDtype(f, i, na_forms), IF c.f \in na_forms THEN None ELSE c)]]

\* lines 25-36: _identify_column_types for column i of the dataframe
TwPdIsNumeric(f, rows, i) ==
  IF PdColumnDtype(f, i, TwPdNaForms) \in {"int64", "float64"} THEN TRUE
  ELSE LET sample == Take(Pick(rows, LAMBDA r : rows[r][i] # None), FirstRows)
           numeric == Cardinality({k \in DOMAIN sample : PdNumericOk(sample[k][i])})
       IN sample # <<>> /\ RatioAbove(numeric, Len(sample))

\* line 19: pd.to_numeric(errors='coerce') on a column of numbers or of text
TwPdToNumeric(c) ==
  IF c = None \/ is_number(c) THEN c
  ELSE IF PdNumericOk(c) THEN C("pyfloat", tenths(c)) ELSE None

\* lines 10-23: load_and_clean_data (read_csv raising is the caller's matter)
TwPd_load_and_clean_data(self, f) ==
  LET hs == f.headers
      rows == PdDropDuplicates(PdRead(f, TwPdNaForms))
  IN [self EXCEPT !.headers = hs,
        !.numeric_columns = Pick(hs, LAMBDA i : TwPdIsNumeric(f, rows, i)),
        !.text_columns = Pick(hs, LAMBDA i : ~TwPdIsNumeric(f, rows, i)),
        !.data = [r \in DOMAIN rows |->
                    [i \in DOMAIN hs |->
                       IF TwPdIsNumeric(f, rows, i) THEN TwPdToNumeric(rows[r][i])
                       ELSE rows[r][i]]]]

\* Series.std(): the sample standard deviation, NaN for one value
FrameStats(xs) == describe(xs)

\* lines 54-73: compute_overall_statistics (the top value of a text column is
\* left out: value_counts does not fix the order of equally frequent values)
TwFrame_compute_overall_statistics(self, null_is_value) ==
  [numeric |-> [k \in DOMAIN self.numeric_columns |->
                  LET col == self.numeric_columns[k]
                  IN [col |-> col,
                      stats |-> FrameStats(PdNumbers(self.data, IndexOf(self.headers, col)))]],
   text |-> [k \in DOMAIN self.text_columns |->
               LET col == self.text_columns[k]
                   idx == IndexOf(self.headers, col)
                   non_null == Pick(self.data, LAMBDA r : self.data[r][idx] # None)
               IN [col |-> col, count |-> Len(non_null),
                   unique |-> Cardinality({self.data[r][idx] :
                                 r \in {q \in DOMAIN self.data :
                                          null_is_value \/ self.data[q][idx] # None}}),
                   top |-> None]]]

TwPd_compute_overall_statistics(self) == TwFrame_compute_overall_statistics(self, FALSE)

\* lines 74-78: group_and_print; groupby(by_cols) leaves out the rows with
\* NaN in a grouping column
TwPd_group_and_print(self, by_cols) ==
  LET group_sizes == FrameGroupSizes(FrameGroupKeys(self, by_cols, FALSE))
      top == Take(group_sizes, TopN)
  IN [ngroups |-> Len(group_sizes), d |-> <<>>,
      rows |-> [g \in DOMAIN top |-> [key |-> <<>>, count |-> top[g]]]]

\* lines 80-88 and polars 77-85: group_numeric_stats: per column, the value
\* counts of the (at most ten) groups with the most values
TwFrame_group_numeric_stats(self, group_cols, num_cols, nulls) ==
  LET cols == SelectSeq(Take(num_cols, StatColumns), LAMBDA c : Contains(self.headers, c))
  IN [c \in DOMAIN cols |->
        LET idx == IndexOf(self.headers, cols[c])
            with == [self EXCEPT !.data = Pick(self.data, LAMBDA r : self.data[r][idx] # None)]
        IN [col |-> cols[c],
            rows |-> Take(FrameGroupSizes(FrameGroupKeys(with, group_cols, nulls)), TopN)]]

TwPd_group_numeric_stats(self, group_cols, num_cols) ==
  TwFrame_group_numeric_stats(self, group_cols, num_cols, FALSE)

\* every order of the elements of S with the larger weight first: what a
\* sort that does not fix the order of equal keys may return
RECURSIVE Orders(_, _)
Orders(S, weight) ==
  IF S = {} THEN {<<>>}
  ELSE UNION {{<<x>> \o o : o \in Orders(S \ {x}, weight)} :
                x \in {y \in S : \A z \in S : weight[y] >= weight[z]}}

\* df_eng[available_metrics].sum(axis=1) after fillna(0), in tenths
FrameRowEngagement(self, row, metrics) ==
  LET present == SelectSeq(metrics, LAMBDA m : Contains(self.headers, m))
  IN Sum([k \in DOMAIN present |->
            LET v == row[IndexOf(self.headers, present[k])]
            IN IF is_number(v) THEN tenths(v) ELSE 0])

\* the table engagement_by_group prints: every list it may be, the groups
\* with the highest total engagement first
FrameEngagement(self, group_col, metrics, nulls) ==
  LET idx == IndexOf(self.headers, group_col)
      rows == Pick(self.data, LAMBDA r : nulls \/ self.data[r][idx] # None)
      groups == {rows[r][idx] : r \in DOMAIN rows}
      members(key) == Pick(rows, LAMBDA r : rows[r][idx] = key)
      total == [key \in groups |->
                  Sum([r \in DOMAIN members(key) |->
                         FrameRowEngagement(self, members(key)[r], metrics)])]
  IN {[rows |-> [g \in DOMAIN Take(o, TopN) |->
                   [key |-> o[g], posts |-> Len(members(o[g])), total |-> total[o[g]]]]] :
        o \in Orders(groups, total)}

\* lines 90-99: engagement_by_group; nothing is printed without metrics or
\* without the grouping column
TwPd_engagement_by_group(self, group_col, metrics) ==
  IF SelectSeq(metrics, LAMBDA m : Contains(self.headers, m)) # <<>>
     /\ Contains(self.headers, group_col)
    THEN FrameEngagement(self, group_col, metrics, FALSE)
    ELSE {[rows |-> <<>>]}

\* fillna(0) on the metric columns of self.df itself, without the copy
TwPdFillnaInPlace(self, group_col, metrics) ==
  [r \in DOMAIN self.data |->
     [i \in DOMAIN self.headers |->
        IF Contains(metrics, self.headers[i]) /\ self.data[r][i] = None
          THEN C("pyfloat", 0) ELSE self.data[r][i]]]

\* lines 93-94: df_eng = self.df.copy(), and fillna(0) on the columns of
\* df_eng: the rows of self.df after the call
TwPdAfterEngagement(self, group_col, metrics) == self.data

-----------------------------------------------------------------------------
(* Twitter posts, polars: TwitterPostsAnalyzer of polars_stats.py.         *)

\* line 12: null_values, compared with the text as it stands
TwPlNullForms == {"empty", "nan"}

\* lines 22-33: _identify_column_types for column i of the dataframe
TwPlIsNumeric(f, rows, i) ==
  IF PlIsNumericDtype(f, i, TwPlNullForms) THEN TRUE
  ELSE LET sample == Take(Pick(rows, LAMBDA r : rows[r][i] # None), FirstRows)
           numeric == Cardinality({k \in DOMAIN sample : sample[k][i].f \in {"int", "dec", "exp"}})
       IN sample # <<>> /\ RatioAbove(numeric, Len(sample))

\* line 17: cast(pl.Float64, strict=False)
TwPlCast(c) ==
  IF c = None THEN None
  ELSE IF c.f \in {"int", "dec", "exp", "pyint", "pyfloat"} THEN C("pyfloat", tenths(c))
  ELSE None

\* lines 10-20: load_and_clean_data
TwPl_load_and_clean_data(self, f) ==
  LET hs == f.headers
      rows == PlUnique(PlRead(f, TwPlNullForms))
  IN [self EXCEPT !.headers = hs,
        !.numeric_columns = Pick(hs, LAMBDA i : TwPlIsNumeric(f, rows, i)),
        !.text_columns = Pick(hs, LAMBDA i : ~TwPlIsNumeric(f, rows, i)),
        !.data = [r \in DOMAIN rows |->
                    [i \in DOMAIN hs |->
                       IF TwPlIsNumeric(f, rows, i) THEN TwPlCast(rows[r][i])
                       ELSE rows[r][i]]]]

\* lines 45-68
TwPl_compute_overall_statistics(self) == TwFrame_compute_overall_statistics(self, TRUE)

\* lines 70-75: group_and_print; group_by keeps null as a key
TwPl_group_and_print(self, by_cols) ==
  LET group_sizes == FrameGroupSizes(FrameGroupKeys(self, by_cols, TRUE))
      top == Take(group_sizes, TopN)
  IN [ngroups |-> Len(group_sizes), d |-> <<>>,
      rows |-> [g \in DOMAIN top |-> [key |-> <<>>, count |-> top[g]]]]

\* lines 77-85
TwPl_group_numeric_stats(self, group_cols, num_cols) ==
  TwFrame_group_numeric_stats(self, group_cols, num_cols, TRUE)

\* lines 87-95: engagement_by_group
TwPl_engagement_by_group(self, group_col, metrics) ==
  IF SelectSeq(metrics, LAMBDA m : Contains(self.headers, m)) # <<>>
     /\ Contains(self.headers, group_col)
    THEN FrameEngagement(self, group_col, metrics, TRUE)
    ELSE {[rows |-> <<>>]}

-----------------------------------------------------------------------------
(* The CSV files the scripts are run on. *)

File(hs, recs) == [readable |-> TRUE, headers |-> hs, records |-> recs]

MissingFile == [readable |-> FALSE, headers |-> <<>>, records |-> <<>>]

\* every table of up to n records whose column i holds cells of cells[i]
Tables(hs, cells, n) ==
  UNION {{File(hs, recs) :
            recs \in [1..k -> {rec \in [1..Len(hs) -> UNION Range(cells)] :
                                 \A i \in 1..Len(hs) : rec[i] \in cells[i]}]} : k \in 0..n}

\* one-column records: part p of the shape gives n cells of one form, the
\* first with value v, each next one step further
RECURSIVE Segments(_)
Segments(shape) ==
  IF shape = <<>> THEN <<>>
  ELSE LET p == Head(shape)
       IN [r \in 1..p.n |-> <<C(p.form, p.v + p.step * (r - 1))>>] \o Segments(Tail(shape))

Part(form, v, step, n) == [form |-> form, v |-> v, step |-> step, n |-> n]

\* one column of up to n cells: a different numbers, b different words and c
\* empty cells, numbers first or words first
ColumnFiles(h, n) ==
  {File(<<h>>, Segments(shape)) :
     shape \in UNION {UNION {UNION {
       {<<Part("int", 1, 1, a), Part("word", 1, 1, b), Part("empty", 0, 0, c)>>,
        <<Part("word", 1, 1, b), Part("int", 1, 1, a), Part("empty", 0, 0, c)>>} :
          c \in 0..(n - a - b)} : b \in 0..(n - a)} : a \in 0..n}}

Num == {C("int", 7), C("int", 8), C("empty", 0)}

Word == {C("word", 1), C("word", 2), C("empty", 0)}

Mixed == {C("int", 7), C("word", 1), C("empty", 0)}

\* Facebook ads
AdsSmallFiles ==
  Tables(<<"page_id", "ad_id">>, <<Mixed, Mixed>>, MaxRows)
    \cup Tables(<<" page_id", "currency">>, <<Mixed, Word>>, MaxRows)
    \cup Tables(<<"currency", "spend">>, <<Word, {C("int", 7), C("dec", 75), C("empty", 0)}>>, MaxRows)

\* columns longer than the samples load_and_clean_data takes
AdsLongFiles ==
  {File(<<"spend">>, Segments(shape)) : shape \in
     {<<Part("int", 7, 0, 80), Part("word", 1, 0, 30)>>,
      <<Part("word", 1, 0, 21), Part("int", 7, 0, 979)>>,
      <<Part("empty", 0, 0, 1000), Part("int", 7, 0, 1)>>,
      <<Part("empty", 0, 0, 999), Part("int", 7, 0, 1), Part("word", 1, 0, 1)>>}}

\* the records of groups g..n: group g is page g, with size[g] ads numbered
\* from serial on
RECURSIVE GroupRecords(_, _, _, _)
GroupRecords(g, n, size, serial) ==
  IF g > n THEN <<>>
  ELSE [r \in 1..size[g] |-> <<C("word", g), C("int", serial + r - 1)>>]
         \o GroupRecords(g + 1, n, size, serial + size[g])

\* tables of about MaxGroups pages with different numbers of ads
GroupSizes(n) ==
  {[g \in 1..n |-> 1],
   [g \in 1..n |-> 1 + (g % 3)],
   [g \in 1..n |-> IF g = n THEN 3 ELSE 1],
   [g \in 1..n |-> 1 + ((n - g) % 2)]}

GroupFiles(hs) ==
  UNION {{File(hs, GroupRecords(1, n, size, 1)) : size \in GroupSizes(n)} :
           n \in {MaxGroups - 1, MaxGroups}}

\* files the three Facebook-ads scripts are run on
AdsFrameFiles ==
  {MissingFile} \cup AdsSmallFiles \cup ColumnFiles("spend", MaxColRows)
    \cup AdsLongFiles \cup GroupFiles(<<"page_id", "ad_id">>)

\* JSON fields, padded text and null spellings: pure Python only
AdsTextFiles ==
  Tables(<<"publisher_platforms", "spend">>,
         <<{C("int", 7), C("jsonobj", 1), C("emptyobj", 0), C("badjson", 1)},
           {C("padint", 7), C("NA", 0), C("blank", 0)}>>, MaxRows)
    \cup Tables(<<"currency", "bylines">>,
                <<{Bar, C("empty", 0)}, {Bar, C("empty", 0)}>>, MaxRows)

\* records shorter and longer than the header, and an empty line
RaggedRecords ==
  {<<>>, <<C("int", 7)>>, <<C("word", 1)>>, <<C("int", 7), C("int", 8)>>,
   <<C("int", 7), C("int", 8), C("word", 1)>>}

\* pure Python only: csv.reader takes records of any length
AdsRaggedFiles ==
  UNION {{File(<<"page_id", "spend">>, recs) : recs \in [1..k -> RaggedRecords]} :
           k \in 0..MaxRows}

\* Facebook posts
PostsLongFiles ==
  {File(<<"Likes">>, Segments(shape)) : shape \in
     {<<Part("int", 7, 0, 80), Part("word", 1, 0, 25)>>,
      <<Part("int", 7, 0, 81), Part("word", 1, 0, 69)>>,
      <<Part("empty", 0, 0, 100), Part("int", 7, 0, 1)>>,
      <<Part("word", 1, 0, 100), Part("int", 7, 0, 900)>>}}

PostsFiles ==
  {MissingFile} \cup Tables(<<"Facebook_Id", "Likes">>, <<Word, Mixed>>, MaxRows)
    \cup Tables(<<"Page Category", "post_id">>, <<Word, Num>>, MaxRows)
    \cup ColumnFiles("Likes", MaxColRows) \cup PostsLongFiles
    \cup GroupFiles(<<"Facebook_Id", "post_id">>)

\* Twitter posts
TwLongFiles ==
  {File(<<"likeCount">>, Segments(shape)) : shape \in
     {<<Part("dec", 1, 1, 80), Part("word", 1, 1, 25)>>,
      <<Part("dec", 1, 1, 81), Part("word", 1, 1, 69)>>,
      <<Part("word", 1, 1, 100), Part("dec", 1, 1, 900)>>}}

TwFiles ==
  {MissingFile} \cup Tables(<<"source", "likeCount">>, <<Word, Num>>, MaxRows)
    \cup Tables(<<"id", "lang">>, <<Num, Word>>, MaxRows)
    \cup ColumnFiles("likeCount", MaxColRows) \cup TwLongFiles
    \cup GroupFiles(<<"source", "likeCount">>)
    \cup Tables(<<"likeCount">>, <<{C("int", 7), C("dec", 70), C("dec", 75)}>>, MaxRows)

\* a job: the scripts of one dataset, run one after the other on one file
AdsScripts == <<"ads_py", "ads_pd", "ads_pl">>

TwScripts == <<"tw_py", "tw_pd", "tw_pl">>

Jobs ==
  {[scripts |-> AdsScripts, file |-> f] : f \in AdsFrameFiles}
    \cup {[scripts |-> <<"ads_py">>, file |-> f] : f \in AdsTextFiles \cup AdsRaggedFiles}
    \cup {[scripts |-> <<"posts_py">>, file |-> f] : f \in PostsFiles}
    \cup {[scripts |-> TwScripts, file |-> f] : f \in TwFiles}

-----------------------------------------------------------------------------
(* The runs: main() builds an analyzer and calls run_complete_analysis.    *)

Self ==
  [headers |-> headers, data |-> data, numeric_columns |-> numeric_columns,
   categorical_columns |-> categorical_columns, text_columns |-> text_columns]

\* __init__ of every analyzer: an empty table and empty column lists
NewAnalyzer ==
  [headers |-> <<>>, data |-> <<>>, numeric_columns |-> <<>>,
   categorical_columns |-> <<>>, text_columns |-> <<>>]

Set(self) ==
  /\ headers' = self.headers
  /\ data' = self.data
  /\ numeric_columns' = self.numeric_columns
  /\ categorical_columns' = self.categorical_columns
  /\ text_columns' = self.text_columns

Call(op, args, out) ==
  trace' = Append(trace, [script |-> script, op |-> op, args |-> args, out |-> out])

\* a call that leaves the analyzer as it is, and the position after it
Report(op, args, out, next) ==
  /\ Call(op, args, out)
  /\ pc' = next
  /\ UNCHANGED <<file, queue, script, analyzer>>

\* a branch not taken
Skip(next) ==
  /\ pc' = next
  /\ UNCHANGED <<file, queue, script, analyzer, trace>>

Columns(self) ==
  [numeric |-> self.numeric_columns, categorical |-> self.categorical_columns,
   text |-> self.text_columns, rows |-> Len(self.data)]

\* a run that starts with the statistics instead of the load
EntryPcSkippingLoad(s) == "stats"

\* the first statement of run_complete_analysis
EntryPc(s) == "load"

Init ==
  \E job \in Jobs :
    /\ file = job.file
    /\ script = Head(job.scripts)
    /\ queue = Tail(job.scripts)
    /\ pc = EntryPc(script)
    /\ headers = <<>> /\ data = <<>> /\ numeric_columns = <<>>
    /\ categorical_columns = <<>> /\ text_columns = <<>>
    /\ trace = <<>>

Load(self, next) ==
  /\ Set(self)
  /\ Call("load_and_clean_data", <<>>, Columns(self))
  /\ pc' = next
  /\ UNCHANGED <<file, queue, script>>

(* Facebook ads, pure Python: lines 274-314 *)

\* a run that goes on to the statistics whatever was loaded
AdsPyAfterLoadUnchecked(self) == "stats"

\* a run that does not come back from the load
AdsPyAfterLoadHangs(self) == "hang"

\* lines 280-282: if not self.data: print("No data loaded!"); return
AdsPyAfterLoad(self) == IF self.data = <<>> THEN "no_data" ELSE "stats"

\* lines 279-282
AdsPyRunLoad ==
  /\ script = "ads_py" /\ pc = "load"
  /\ LET self == AdsPy_load_and_clean_data(Self, file)
     IN Load(self, AdsPyAfterLoad(self))

\* line 284
AdsPyRunStats ==
  /\ script = "ads_py" /\ pc = "stats"
  /\ LET out == AdsPy_compute_column_statistics(Self)
     IN Report("compute_column_statistics", <<>>, out,
               IF out.raised THEN "error" ELSE "group_page")

\* lines 287-288
AdsPyRunGroupPage ==
  /\ script = "ads_py" /\ pc = "group_page"
  /\ IF Contains(headers, "page_id")
       THEN Report("perform_groupby_analysis", <<"page_id">>,
                   AdsPy_perform_groupby_analysis(Self, <<"page_id">>), "group_page_ad")
       ELSE Skip("group_page_ad")

\* lines 290-291
AdsPyRunGroupPageAd ==
  /\ script = "ads_py" /\ pc = "group_page_ad"
  /\ IF Contains(headers, "page_id") /\ Contains(headers, "ad_id")
       THEN Report("perform_groupby_analysis", <<"page_id", "ad_id">>,
                   AdsPy_perform_groupby_analysis(Self, <<"page_id", "ad_id">>), "group_best")
       ELSE Skip("group_best")

\* lines 293-307
AdsPyRunGroupBest ==
  /\ script = "ads_py" /\ pc = "group_best"
  /\ LET candidates == AdsPyCandidates(Self)
     IN IF candidates # <<>>
          THEN Report("perform_groupby_analysis", <<candidates[1]>>,
                      AdsPy_perform_groupby_analysis(Self, <<candidates[1]>>), "banner")
          ELSE Skip("banner")

(* Facebook ads, pandas: lines 256-295 *)

\* lines 261-264
AdsPdRunLoad ==
  /\ script = "ads_pd" /\ pc = "load"
  /\ LET self == AdsPd_load_and_clean_data(Self, file)
     IN Load(self, IF self.data = <<>> THEN "no_data" ELSE "stats")

\* line 266
AdsPdRunStats ==
  /\ script = "ads_pd" /\ pc = "stats"
  /\ Report("compute_column_statistics", <<>>, AdsPd_compute_column_statistics(Self),
            "group_page")

\* lines 269-270
AdsPdRunGroupPage ==
  /\ script = "ads_pd" /\ pc = "group_page"
  /\ IF Contains(headers, "page_id")
       THEN Report("perform_groupby_analysis", <<"page_id">>,
                   AdsPd_perform_groupby_analysis(Self, <<"page_id">>), "group_page_ad")
       ELSE Skip("group_page_ad")

\* lines 272-273
AdsPdRunGroupPageAd ==
  /\ script = "ads_pd" /\ pc = "group_page_ad"
  /\ IF Contains(headers, "page_id") /\ Contains(headers, "ad_id")
       THEN Report("perform_groupby_analysis", <<"page_id", "ad_id">>,
                   AdsPd_perform_groupby_analysis(Self, <<"page_id", "ad_id">>), "group_best")
       ELSE Skip("group_best")

\* lines 276-288
AdsPdRunGroupBest ==
  /\ script = "ads_pd" /\ pc = "group_best"
  /\ LET candidates == AdsPdCandidates(Self)
     IN IF candidates # <<>>
          THEN Report("perform_groupby_analysis", <<candidates[1]>>,
                      AdsPd_perform_groupby_analysis(Self, <<candidates[1]>>), "banner")
          ELSE Skip("banner")

(* Facebook ads, polars: lines 282-326 *)

\* line 287; load_and_clean_data raises what it could not read
AdsPlRunLoad ==
  /\ script = "ads_pl" /\ pc = "load"
  /\ IF file.readable
       THEN Load(AdsPl_load_and_clean_data(Self, file), "stats")
       ELSE Load(Self, "error")

\* line 290
AdsPlRunStats ==
  /\ script = "ads_pl" /\ pc = "stats"
  /\ LET out == AdsPl_compute_column_statistics(Self)
     IN Report("compute_column_statistics", <<>>, out,
               IF out.raised THEN "error" ELSE "group_ad")

\* line 293
AdsPlRunGroupAd ==
  /\ script = "ads_pl" /\ pc = "group_ad"
  /\ Report("perform_groupby_analysis", <<"ad_id">>,
            AdsPl_perform_groupby_analysis(Self, <<"ad_id">>), "group_page")

\* lines 298-299
AdsPlRunGroupPage ==
  /\ script = "ads_pl" /\ pc = "group_page"
  /\ IF Contains(headers, "page_id")
       THEN Report("perform_groupby_analysis", <<"page_id">>,
                   AdsPl_perform_groupby_analysis(Self, <<"page_id">>), "group_page_ad")
       ELSE Skip("group_page_ad")

\* lines 301-302
AdsPlRunGroupPageAd ==
  /\ script = "ads_pl" /\ pc = "group_page_ad"
  /\ IF Contains(headers, "page_id") /\ Contains(headers, "ad_id")
       THEN Report("perform_groupby_analysis", <<"page_id", "ad_id">>,
                   AdsPl_perform_groupby_analysis(Self, <<"page_id", "ad_id">>), "group_best")
       ELSE Skip("group_best")

\* lines 304-318
AdsPlRunGroupBest ==
  /\ script = "ads_pl" /\ pc = "group_best"
  /\ LET candidates == AdsPlCandidates(Self)
     IN IF candidates # <<>>
          THEN Report("perform_groupby_analysis", <<candidates[1]>>,
                      AdsPl_perform_groupby_analysis(Self, <<candidates[1]>>), "banner")
          ELSE Skip("banner")

\* 'No data loaded!' and return
RunNoData ==
  /\ pc = "no_data"
  /\ Report("print", <<"No data loaded!">>, [printed |-> TRUE], "done")

\* the except clause of run_complete_analysis
RunError ==
  /\ pc = "error"
  /\ Report("print", <<"Error">>, [printed |-> TRUE], "done")

\* 'ANALYSIS COMPLETED SUCCESSFULLY'
RunBanner ==
  /\ pc = "banner"
  /\ Report("print", <<"ANALYSIS COMPLETED SUCCESSFULLY">>, [printed |-> TRUE], "done")

(* Facebook posts, pure Python: lines 167-189.  An exception leaves        *)
(* run_complete_analysis and ends the script.                              *)

\* line 172
PostsRunLoad ==
  /\ script = "posts_py" /\ pc = "load"
  /\ IF file.readable
       THEN Load(Posts_load_and_clean_data(Self, file), "stats")
       ELSE Load(Self, "done")

\* the hash seeds of a Python process the model tells apart
MaxSeeds == 2

\* lines 14-24: _print_table.  keys = list(set().union(...)): a set of
\* strings is iterated in the order of their hashes, which str randomises
\* anew in every process; of these orders the model has MaxSeeds, the keys
\* as the rows list them turned by the seed of the process.
_print_table(keys, seed) ==
  [i \in DOMAIN keys |-> keys[((i + seed - 2) % Len(keys)) + 1]]

Table(title, keys) == [title |-> title, keys |-> keys]

\* stat[f'{col}_Mean'] and, for two names, stat[f'{col}_Count'] of each column
StatKeys(cols, names) ==
  [i \in 1..(Len(cols) * Len(names)) |->
     <<cols[((i - 1) \div Len(names)) + 1], names[((i - 1) % Len(names)) + 1]>>]

\* lines 47-68: the tables of compute_overall_statistics
PostsStatsTables(self) ==
  (IF self.numeric_columns # <<>>
     THEN <<Table("NUMERIC COLUMNS STATISTICS",
                  <<<<"Column">>, <<"Count">>, <<"Mean">>, <<"Min">>, <<"Max">>, <<"Std">>>>)>>
     ELSE <<>>)
  \o (IF self.text_columns # <<>>
        THEN <<Table("TEXT COLUMNS STATISTICS",
                     <<<<"Column">>, <<"Count">>, <<"Unique">>, <<"Top Value">>,
                       <<"Top Count">>>>)>>
        ELSE <<>>)

\* lines 78-87: the table of analyze_by_facebook_id
PostsByIdTables(self) ==
  IF Contains(self.headers, "Facebook_Id") /\ self.numeric_columns # <<>>
     /\ self.data # <<>>
    THEN <<Table("Top 10 Pages",
                 <<<<"Facebook_Id">>>>
                   \o StatKeys(Take(self.numeric_columns, 3), <<"Mean", "Count">>))>>
    ELSE <<>>

\* lines 99-107: the table of analyze_by_facebook_and_post_id
PostsByIdAndPostTables(self) ==
  IF Contains(self.headers, "Facebook_Id") /\ Contains(self.headers, "post_id")
     /\ self.numeric_columns # <<>> /\ self.data # <<>>
    THEN <<Table("First 10 Combinations",
                 <<<<"Facebook_Id">>, <<"Post_ID">>, <<"Rows">>>>
                   \o StatKeys(Take(self.numeric_columns, 2), <<"Mean">>))>>
    ELSE <<>>

\* lines 118-132: the tables of analyze_by_page_category
PostsByCategoryTables(self) ==
  IF ~Contains(self.headers, "Page Category") \/ self.data = <<>> THEN <<>>
  ELSE <<Table("CATEGORIES BY POST COUNT",
               <<<<"Rank">>, <<"Category">>, <<"Posts">>, <<"Percentage">>>>)>>
       \o (IF self.numeric_columns # <<>>
             THEN <<Table("STATISTICS BY CATEGORY",
                          <<<<"Category">>>>
                            \o StatKeys(Take(self.numeric_columns, 4), <<"Mean", "Count">>))>>
             ELSE <<>>)

\* lines 138-165: the tables of compare_groups_analysis
PostsCompareTables(self) ==
  LET eng_cols ==
        Take(SelectSeq(<<"Likes", "Comments", "Shares", "Love", "Wow", "Haha", "Sad",
                         "Angry", "Care">>, LAMBDA c : Contains(self.headers, c)), 3)
  IN (IF Contains(self.headers, "Page Category") /\ self.data # <<>>
        THEN [k \in DOMAIN eng_cols |->
                Table("Rankings", <<<<"Rank">>, <<"Category">>, <<eng_cols[k]>>>>)]
        ELSE <<>>)
     \o (IF Contains(self.headers, "Facebook_Id") /\ Contains(self.headers, "Likes")
            /\ self.data # <<>>
           THEN <<Table("TOP FACEBOOK PAGES BY TOTAL ENGAGEMENT",
                        <<<<"Rank">>, <<"Page_ID">>, <<"Total_Engagement">>, <<"Likes">>,
                          <<"Comments">>, <<"Shares">>>>)>>
           ELSE <<>>)

\* the hash seed of the running process: open until its first table is
\* printed, then the one that table was printed with
PostsHashSeeds ==
  LET start == SetMax({k \in DOMAIN trace : trace[k].op = "load_and_clean_data"})
      printed == {k \in DOMAIN trace :
                    k > start /\ trace[k].op = "print" /\ trace[k].args[1] = "_print_table"}
  IN IF printed = {} THEN 1..MaxSeeds ELSE {trace[SetMin(printed)].out.hashseed}

\* a call of the posts analyzer and the tables it prints
PostsReport(op, out, tables, next) ==
  \E seed \in PostsHashSeeds :
    /\ trace' = Append(trace, [script |-> script, op |-> op, args |-> <<>>, out |-> out])
                  \o [t \in DOMAIN tables |->
                        [script |-> script, op |-> "print",
                         args |-> <<"_print_table", tables[t].title>>,
                         out |-> [hashseed |-> seed,
                                  keys |-> _print_table(tables[t].keys, seed)]]]
    /\ pc' = next
    /\ UNCHANGED <<file, queue, script, analyzer>>

\* line 175
PostsRunStats ==
  /\ script = "posts_py" /\ pc = "stats"
  /\ PostsReport("compute_overall_statistics", Posts_compute_overall_statistics(Self),
                 PostsStatsTables(Self), "by_id")

\* line 178
PostsRunById ==
  /\ script = "posts_py" /\ pc = "by_id"
  /\ PostsReport("analyze_by_facebook_id", Posts_analyze_by_facebook_id(Self),
                 PostsByIdTables(Self), "by_id_post")

\* line 181
PostsRunByIdAndPost ==
  /\ script = "posts_py" /\ pc = "by_id_post"
  /\ PostsReport("analyze_by_facebook_and_post_id",
                 Posts_analyze_by_facebook_and_post_id(Self),
                 PostsByIdAndPostTables(Self), "by_category")

\* line 184
PostsRunByCategory ==
  /\ script = "posts_py" /\ pc = "by_category"
  /\ PostsReport("analyze_by_page_category", Posts_analyze_by_page_category(Self),
                 PostsByCategoryTables(Self), "compare")

\* line 187
PostsRunCompare ==
  /\ script = "posts_py" /\ pc = "compare"
  /\ PostsReport("compare_groups_analysis", Posts_compare_groups_analysis(Self),
                 PostsCompareTables(Self), "end")

(* Twitter posts: run_complete_analysis of the three scripts *)

ColSets == <<<<"source">>, <<"id", "source">>, <<"lang">>>>

EngagementGroups == <<"source", "lang">>

GroupPc == <<"group_1", "group_2", "group_3">>

NumStatsPc == <<"numstats_1", "numstats_2", "numstats_3">>

EngagementPc == <<"engagement_1", "engagement_2">>

AfterGroup(k) == IF k < Len(ColSets) THEN GroupPc[k + 1] ELSE EngagementPc[1]

AfterEngagement(k) == IF k < Len(EngagementGroups) THEN EngagementPc[k + 1] ELSE "end"

HasAll(hs, cols) == \A k \in DOMAIN cols : Contains(hs, cols[k])

\* metrics = [c for c in [...] if c in self.headers]
Metrics(hs) == SelectSeq(AllMetrics, LAMBDA c : Contains(hs, c))

\* pure Python line 128
TwPyRunLoad ==
  /\ script = "tw_py" /\ pc = "load"
  /\ IF file.readable
       THEN Load(TwPy_load_and_clean_data(Self, file), "stats")
       ELSE Load(Self, "done")

\* pure Python line 131
TwPyRunStats ==
  /\ script = "tw_py" /\ pc = "stats"
  /\ Report("compute_overall_statistics", <<>>, TwPy_compute_overall_statistics(Self),
            GroupPc[1])

\* pure Python lines 134-136, 142-144, 150-152
TwPyRunGroup(k) ==
  /\ script = "tw_py" /\ pc = GroupPc[k]
  /\ IF HasAll(headers, ColSets[k])
       THEN Report("group_and_print", ColSets[k], TwPy_group_and_print(Self, ColSets[k]),
                   NumStatsPc[k])
       ELSE Skip(AfterGroup(k))

\* pure Python lines 139, 147, 155: d is what group_and_print returned
TwPyRunNumStats(k) ==
  /\ script = "tw_py" /\ pc = NumStatsPc[k]
  /\ Report("group_numeric_stats", ColSets[k],
            TwPy_group_numeric_stats(Self, ColSets[k],
                                     TwPy_group_and_print(Self, ColSets[k]).d, numeric_columns),
            AfterGroup(k))

\* pure Python lines 158-164
TwPyRunEngagement(k) ==
  /\ script = "tw_py" /\ pc = EngagementPc[k]
  /\ IF Metrics(headers) # <<>>
       THEN Report("engagement_by_group", <<EngagementGroups[k]>>,
                   TwPy_engagement_by_group(Self, EngagementGroups[k], Metrics(headers)),
                   AfterEngagement(k))
       ELSE Skip(AfterEngagement(k))

\* pandas line 106
TwPdRunLoad ==
  /\ script = "tw_pd" /\ pc = "load"
  /\ IF file.readable
       THEN Load(TwPd_load_and_clean_data(Self, file), "stats")
       ELSE Load(Self, "done")

\* pandas line 109
TwPdRunStats ==
  /\ script = "tw_pd" /\ pc = "stats"
  /\ Report("compute_overall_statistics", <<>>, TwPd_compute_overall_statistics(Self),
            GroupPc[1])

\* pandas lines 113-116
TwPdRunGroup(k) ==
  /\ script = "tw_pd" /\ pc = GroupPc[k]
  /\ IF HasAll(headers, ColSets[k])
       THEN Report("group_and_print", ColSets[k], TwPd_group_and_print(Self, ColSets[k]),
                   NumStatsPc[k])
       ELSE Skip(AfterGroup(k))

\* pandas lines 117-119
TwPdRunNumStats(k) ==
  /\ script = "tw_pd" /\ pc = NumStatsPc[k]
  /\ Report("group_numeric_stats", ColSets[k],
            TwPd_group_numeric_stats(Self, ColSets[k], numeric_columns), AfterGroup(k))

\* pandas lines 122-127
TwPdRunEngagement(k) ==
  /\ script = "tw_pd" /\ pc = EngagementPc[k]
  /\ IF Metrics(headers) # <<>> /\ Contains(headers, EngagementGroups[k])
       THEN \E out \in TwPd_engagement_by_group(Self, EngagementGroups[k], Metrics(headers)) :
              /\ Call("engagement_by_group", <<EngagementGroups[k]>>, out)
              /\ data' = TwPdAfterEngagement(Self, EngagementGroups[k], Metrics(headers))
              /\ pc' = AfterEngagement(k)
              /\ UNCHANGED <<file, queue, script, headers, numeric_columns,
                             categorical_columns, text_columns>>
       ELSE Skip(AfterEngagement(k))

\* polars line 102
TwPlRunLoad ==
  /\ script = "tw_pl" /\ pc = "load"
  /\ IF file.readable
       THEN Load(TwPl_load_and_clean_data(Self, file), "stats")
       ELSE Load(Self, "done")

\* polars line 105
TwPlRunStats ==
  /\ script = "tw_pl" /\ pc = "stats"
  /\ Report("compute_overall_statistics", <<>>, TwPl_compute_overall_statistics(Self),
            GroupPc[1])

\* polars lines 107-109, 114-116, 121-123
TwPlRunGroup(k) ==
  /\ script = "tw_pl" /\ pc = GroupPc[k]
  /\ IF HasAll(headers, ColSets[k])
       THEN Report("group_and_print", ColSets[k], TwPl_group_and_print(Self, ColSets[k]),
                   NumStatsPc[k])
       ELSE Skip(AfterGroup(k))

\* polars lines 112, 119, 126
TwPlRunNumStats(k) ==
  /\ script = "tw_pl" /\ pc = NumStatsPc[k]
  /\ Report("group_numeric_stats", ColSets[k],
            TwPl_group_numeric_stats(Self, ColSets[k], numeric_columns), AfterGroup(k))

\* polars lines 128-136
TwPlRunEngagement(k) ==
  /\ script = "tw_pl" /\ pc = EngagementPc[k]
  /\ IF Metrics(headers) # <<>> /\ Contains(headers, EngagementGroups[k])
       THEN \E out \in TwPl_engagement_by_group(Self, EngagementGroups[k], Metrics(headers)) :
              Report("engagement_by_group", <<EngagementGroups[k]>>, out, AfterEngagement(k))
       ELSE Skip(AfterEngagement(k))

\* the last line of run_complete_analysis: the total time and the END banner
RunEnd ==
  /\ pc = "end"
  /\ Report("print", <<"ANALYSIS END">>, [printed |-> TRUE], "done")

\* main() of the next script of the dataset: a new process, a new analyzer
NextScript ==
  /\ pc = "done" /\ queue # <<>>
  /\ script' = Head(queue)
  /\ queue' = Tail(queue)
  /\ pc' = EntryPc(Head(queue))
  /\ Set(NewAnalyzer)
  /\ UNCHANGED <<file, trace>>

Next ==
  \/ AdsPyRunLoad \/ AdsPyRunStats \/ AdsPyRunGroupPage \/ AdsPyRunGroupPageAd
  \/ AdsPyRunGroupBest
  \/ AdsPdRunLoad \/ AdsPdRunStats \/ AdsPdRunGroupPage \/ AdsPdRunGroupPageAd
  \/ AdsPdRunGroupBest
  \/ AdsPlRunLoad \/ AdsPlRunStats \/ AdsPlRunGroupAd \/ AdsPlRunGroupPage
  \/ AdsPlRunGroupPageAd \/ AdsPlRunGroupBest
  \/ PostsRunLoad \/ PostsRunStats \/ PostsRunById \/ PostsRunByIdAndPost
  \/ PostsRunByCategory \/ PostsRunCompare
  \/ TwPyRunLoad \/ TwPyRunStats
  \/ \E k \in DOMAIN ColSets : TwPyRunGroup(k) \/ TwPyRunNumStats(k)
  \/ \E k \in DOMAIN EngagementGroups : TwPyRunEngagement(k)
  \/ TwPdRunLoad \/ TwPdRunStats
  \/ \E k \in DOMAIN ColSets : TwPdRunGroup(k) \/ TwPdRunNumStats(k)
  \/ \E k \in DOMAIN EngagementGroups : TwPdRunEngagement(k)
  \/ TwPlRunLoad \/ TwPlRunStats
  \/ \E k \in DOMAIN ColSets : TwPlRunGroup(k) \/ TwPlRunNumStats(k)
  \/ \E k \in DOMAIN EngagementGroups : TwPlRunEngagement(k)
  \/ RunNoData \/ RunError \/ RunBanner \/ RunEnd
  \/ NextScript

Spec == Init /\ [][Next]_vars

-----------------------------------------------------------------------------
(* Properties of the runs. *)

AllScripts == {"ads_py", "ads_pd", "ads_pl", "posts_py", "tw_py", "tw_pd", "tw_pl"}

\* the calls script s has made so far, prints left out
Steps(s) == SelectSeq(trace, LAMBDA e : e.script = s /\ e.op # "print")

\* load, then the overall statistics, then the group-by reports
StepRank(op) ==
  CASE op = "load_and_clean_data" -> 1
    [] op \in {"compute_column_statistics", "compute_overall_statistics"} -> 2
    [] OTHER -> 3

AdsSampled(raw, i) ==
  LET nonnull == {r \in DOMAIN raw : r <= 1000 /\ raw[r][i] # None}
  IN {r \in nonnull : Cardinality({q \in nonnull : q < r}) < 100}

AdsParsed(raw, i) == {r \in AdsSampled(raw, i) : float_ok(raw[r][i])}

\* C7: the pure-Python Facebook-ads load puts a column in numeric_columns
\* exactly when it is not a complex JSON field, some of the first 1000 rows
\* has a value in it, and at least 80% of the first (up to) 100 such values
\* parse as a float; every other column is in categorical_columns.
C7_AdsPyNumericIffSampleAtLeast80 ==
  (script = "ads_py" /\ pc # "load" /\ file.readable) =>
    LET raw == AdsPyRawData(file) IN
    \A i \in DOMAIN headers :
      LET numeric == /\ headers[i] \notin complex_fields
                     /\ AdsSampled(raw, i) # {}
                     /\ 100 * Cardinality(AdsParsed(raw, i)) >= 80 * Cardinality(AdsSampled(raw, i))
      IN /\ Contains(numeric_columns, headers[i]) <=> numeric
         /\ Contains(categorical_columns, headers[i]) <=> ~numeric

\* a loaded column with four numbers among five values, classified numeric
C7_Witness ==
  /\ script = "ads_py" /\ pc = "stats"
  /\ \E i \in DOMAIN headers :
       /\ Cardinality(AdsSampled(AdsPyRawData(file), i)) = 5
       /\ Cardinality(AdsParsed(AdsPyRawData(file), i)) = 4
       /\ Contains(numeric_columns, headers[i])

\* the sample of the Facebook-posts and Twitter analyzers: the cells of
\* column i in the first 100 rows that are not empty
PostsSampled(rows, i) == {r \in DOMAIN rows : r <= 100 /\ truthy(rows[r][i])}

\* the rows the Twitter analyzer classifies: cleaned, duplicates removed, not
\* yet converted
TwSampleRows == TwPyUnique(TwPyCleaned(file))

\* strictly more than 80% of a sample that is not empty
Above80(parsed, sampled) == sampled # {} /\ 100 * Cardinality(parsed) > 80 * Cardinality(sampled)

\* C8: the Facebook-posts and Twitter pure-Python analyzers put a column in
\* numeric_columns exactly when the first 100 rows have non-empty values in
\* it and strictly more than 80% of these parse as a number; otherwise it
\* is in text_columns (so it is with exactly 80%).
C8_NumericIffSampleAbove80 ==
  /\ (script = "posts_py" /\ pc # "load" /\ file.readable) =>
       \A i \in DOMAIN headers :
         LET sampled == PostsSampled(data, i)
             numeric == Above80({r \in sampled : PostsIsNum(data[r][i])}, sampled)
         IN /\ Contains(numeric_columns, headers[i]) <=> numeric
            /\ Contains(text_columns, headers[i]) <=> ~numeric
  /\ (script = "tw_py" /\ pc # "load" /\ file.readable) =>
       LET rows == TwSampleRows IN
       \A i \in DOMAIN headers :
         LET sampled == PostsSampled(rows, i)
             numeric == Above80({r \in sampled : _is_num(rows[r][i])}, sampled)
         IN /\ Contains(numeric_columns, headers[i]) <=> numeric
            /\ Contains(text_columns, headers[i]) <=> ~numeric

\* a Twitter column with four numbers among five values, classified text
C8_Witness ==
  /\ script = "tw_py" /\ pc = "stats"
  /\ LET rows == TwSampleRows IN
     \E i \in DOMAIN headers :
       /\ Cardinality(PostsSampled(rows, i)) = 5
       /\ Cardinality({r \in PostsSampled(rows, i) : _is_num(rows[r][i])}) = 4
       /\ Contains(text_columns, headers[i])

\* the calls of perform_groupby_analysis the pure-Python Facebook-ads
\* analyzer has made on columns that exist
AdsPyGroupByCalls ==
  {k \in DOMAIN trace : /\ trace[k].script = "ads_py"
                        /\ trace[k].op = "perform_groupby_analysis"
                        /\ trace[k].out.missing = <<>>}

\* C10: the 'Top 10 Groups' list of the pure-Python Facebook-ads
\* perform_groupby_analysis has min(10, number of groups) different groups
\* with their row counts, in non-increasing order of row count, and no
\* group left out has more rows than a listed one.
C10_TopTenLargestGroups ==
  script = "ads_py" =>
    \A k \in AdsPyGroupByCalls :
      LET cols == trace[k].args
          top == trace[k].out.top
          indices == [c \in DOMAIN cols |-> IndexOf(headers, cols[c])]
          key(r) == AdsPyGroupKey(data[r], indices)
          groups == {key(r) : r \in DOMAIN data}
          size(g) == Cardinality({r \in DOMAIN data : key(r) = g})
      IN /\ Len(top) = Min(10, Cardinality(groups))
         /\ \A g \in DOMAIN top : top[g].key \in groups /\ top[g].rows = size(top[g].key)
         /\ \A g, h \in DOMAIN top :
              g < h => top[g].rows >= top[h].rows /\ top[g].key # top[h].key
         /\ \A x \in groups :
              (\A g \in DOMAIN top : top[g].key # x) =>
                 \A g \in DOMAIN top : size(x) <= top[g].rows

\* a report on more than ten groups of different sizes
C10_Witness ==
  /\ script = "ads_py"
  /\ \E k \in AdsPyGroupByCalls :
       /\ trace[k].out.ngroups > 10
       /\ Len(trace[k].out.top) = 10
       /\ trace[k].out.top[1].rows > trace[k].out.top[10].rows

\* the statistics and group-by operations
ReportOps ==
  {"compute_column_statistics", "perform_groupby_analysis", "compute_overall_statistics",
   "group_and_print", "group_numeric_stats", "engagement_by_group"}

\* C9: a statistics or group-by operation leaves the loaded table, the
\* header list and the column lists as they were before the call.
C9_ReportsLeaveAnalyzerUnchanged ==
  [][(Len(trace') = Len(trace) + 1 /\ trace'[Len(trace')].op \in ReportOps)
       => UNCHANGED analyzer]_vars

\* the pandas engagement report has run on a table with a null metric value
C9_Witness ==
  /\ trace # <<>>
  /\ trace[Len(trace)].script = "tw_pd"
  /\ trace[Len(trace)].op = "engagement_by_group"
  /\ trace[Len(trace)].out.rows # <<>>
  /\ \E r \in DOMAIN data : \E i \in DOMAIN headers :
       Contains(AllMetrics, headers[i]) /\ data[r][i] = None

\* the grouping columns of the perform_groupby_analysis calls of script s
GroupBys(s) ==
  LET calls == SelectSeq(trace, LAMBDA e : e.script = s /\ e.op = "perform_groupby_analysis")
  IN [k \in DOMAIN calls |-> calls[k].args]

\* C2: run on the same file, the three Facebook-ads scripts make the same
\* perform_groupby_analysis calls: the same grouping columns in the same
\* order, each as often.
C2_SameGroupBys ==
  (script = "ads_pl" /\ pc = "done") =>
    /\ GroupBys("ads_py") = GroupBys("ads_pd")
    /\ GroupBys("ads_pd") = GroupBys("ads_pl")

\* what load_and_clean_data of script s reported
Loaded(s) ==
  {trace[k].out : k \in {q \in DOMAIN trace : trace[q].script = s
                                              /\ trace[q].op = "load_and_clean_data"}}

\* C3: run on the same file, the pure-Python and the pandas Facebook-ads
\* loads put the same columns in numeric_columns.
C3_SameNumericColumns ==
  \A py \in Loaded("ads_py") : \A pd \in Loaded("ads_pd") :
    Range(py.numeric) = Range(pd.numeric)

\* count, mean, standard deviation, minimum and maximum are the same
SameFigures(a, b) ==
  /\ a.count = b.count
  /\ a.total * b.count = b.total * a.count
  /\ a.std_nan = b.std_nan
  /\ a.var_num * b.var_den = b.var_num * a.var_den
  /\ a.min = b.min /\ a.max = b.max

\* C4: on the values of a numeric column, _fast_stats and describe() give
\* the same count, mean, standard deviation, minimum and maximum, for lists
\* of one value too.
C4_SameStatistics ==
  (script \in {"ads_py", "ads_pd"} /\ pc # "load") =>
    \A k \in DOMAIN numeric_columns :
      LET xs == PdNumbers(data, IndexOf(headers, numeric_columns[k]))
      IN xs # <<>> => SameFigures(_fast_stats(xs), describe(xs))

\* C5: on the table an analyzer has loaded, the three group_and_print of
\* the Twitter scripts report the same number of groups.
C5_SameGroupCounts ==
  (script \in Range(TwScripts) /\ pc # "load" /\ file.readable) =>
    \A k \in DOMAIN ColSets :
      HasAll(headers, ColSets[k]) =>
        /\ TwPy_group_and_print(Self, ColSets[k]).ngroups
             = TwPd_group_and_print(Self, ColSets[k]).ngroups
        /\ TwPd_group_and_print(Self, ColSets[k]).ngroups
             = TwPl_group_and_print(Self, ColSets[k]).ngroups

\* the groups of an engagement table, in the order listed
ListedKeys(out) == [g \in DOMAIN out.rows |-> out.rows[g].key]

\* C6: on the table an analyzer has loaded, the three engagement_by_group
\* of the Twitter scripts list the same groups in the same order, the
\* total engagement never increasing down the list.
C6_SameEngagementRanking ==
  (script \in Range(TwScripts) /\ pc # "load" /\ file.readable /\ Metrics(headers) # <<>>) =>
    \A k \in DOMAIN EngagementGroups :
      Contains(headers, EngagementGroups[k]) =>
        LET py == TwPy_engagement_by_group(Self, EngagementGroups[k], Metrics(headers))
        IN /\ \A g, h \in DOMAIN py.rows : g < h => py.rows[g].total >= py.rows[h].total
           /\ \A pd \in TwPd_engagement_by_group(Self, EngagementGroups[k], Metrics(headers)) :
                ListedKeys(pd) = ListedKeys(py)
           /\ \A pl \in TwPl_engagement_by_group(Self, EngagementGroups[k], Metrics(headers)) :
                ListedKeys(pl) = ListedKeys(py)

\* C11: the 'Top 10 Pages' table of the Facebook-posts analyze_by_facebook_id
\* lists the ten Facebook_Id groups with the most rows (all of them when
\* there are fewer than ten): no page left out has more rows than a listed one.
C11_TopTenPagesHaveMostRows ==
  script = "posts_py" =>
    \A k \in DOMAIN trace :
      (trace[k].op = "analyze_by_facebook_id" /\ trace[k].out.listed # <<>>) =>
        LET listed == trace[k].out.listed
            keys == PostsKeys(Self, <<"Facebook_Id">>)
        IN /\ Len(listed) = Min(10, Cardinality(Range(keys)))
           /\ \A x \in Range(keys) :
                (\A g \in DOMAIN listed : listed[g].key # x) =>
                   \A g \in DOMAIN listed : Count(keys, x) <= listed[g].rows

\* the number of values behind every line of a pure-Python
\* group_numeric_stats table, largest first
ListedCounts(table) ==
  SortedDesc([g \in DOMAIN table.rows |-> table.rows[g].stats.count], LAMBDA n : n)

\* C12: on the table an analyzer has loaded, the pure-Python and the pandas
\* group_numeric_stats of the Twitter scripts report on the same groups, the
\* (at most ten) groups with the most values of the column: the lines have
\* the same counts, and no group the pure-Python table leaves out has more
\* values than one it lists.
C12_SameNumericStatsGroups ==
  (script \in Range(TwScripts) /\ pc # "load" /\ file.readable) =>
    \A k \in DOMAIN ColSets :
      HasAll(headers, ColSets[k]) =>
        LET d == TwPy_group_and_print(Self, ColSets[k]).d
            py == TwPy_group_numeric_stats(Self, ColSets[k], d, numeric_columns)
            pd == TwPd_group_numeric_stats(Self, ColSets[k], numeric_columns)
            keys == TwKeys(Self, ColSets[k])
            values(key, col) ==
              Len(TwPyNumbers(Pick(data, LAMBDA r : keys[r] = key), IndexOf(headers, col)))
        IN \A c \in DOMAIN py :
             /\ ListedCounts(py[c]) = pd[c].rows
             /\ \A x \in Range(d) :
                  (\A g \in DOMAIN py[c].rows : py[c].rows[g].key # x) =>
                     \A g \in DOMAIN py[c].rows :
                        values(x, py[c].col) <= py[c].rows[g].stats.count

\* the rows of the file as load_and_clean_data holds them before it removes
\* duplicates: cleaned and, in the numeric columns, converted
AdsPyBeforeDedup == AdsPyConverted(AdsPyHeaders(file), AdsPyRawData(file))

\* C13: the duplicate removal of the pure-Python Facebook-ads load keeps, in
\* file order, exactly the rows that no earlier row equals in every cell:
\* rows that differ in a cell are all kept, and of equal rows the first.
C13_DedupDropsOnlyEqualRows ==
  (script = "ads_py" /\ pc # "load" /\ file.readable) =>
    LET rows == AdsPyBeforeDedup
    IN data = Pick(rows, LAMBDA r : \A q \in 1..(r - 1) : rows[q] # rows[r])

\* C14: after the Twitter pure-Python load_and_clean_data, self.data holds
\* no two rows that are equal on every header column.
C14_NoEqualRowsAfterLoad ==
  (script = "tw_py" /\ pc # "load") =>
    \A r, q \in DOMAIN data : r # q => data[r] # data[q]

\* C15: after the pure-Python Facebook-ads load_and_clean_data, every cell
\* of a column in numeric_columns that is not None is an int or a float, in
\* every row of self.data.
C15_NumericColumnsHoldNumbers ==
  (script = "ads_py" /\ pc # "load") =>
    \A r \in DOMAIN data : \A i \in DOMAIN headers :
      (Contains(numeric_columns, headers[i]) /\ data[r][i] # None) => is_number(data[r][i])

\* the compute_column_statistics reports of the pure-Python Facebook-ads
\* analyzer that printed their tables
AdsPyStatsCalls ==
  {k \in DOMAIN trace : /\ trace[k].script = "ads_py"
                        /\ trace[k].op = "compute_column_statistics"
                        /\ ~trace[k].out.raised}

\* the rows whose cell in column col is None
NoneCells(col) == {r \in DOMAIN data : data[r][IndexOf(headers, col)] = None}

\* C16: in the NUMERIC STATISTICS table of the pure-Python Facebook-ads
\* compute_column_statistics, Count plus Missing is the number of rows, and
\* Missing is the number of rows whose cell in the column is None.
C16_MissingCountsNoneCells ==
  script = "ads_py" =>
    \A k \in AdsPyStatsCalls :
      \A n \in DOMAIN trace[k].out.numeric :
        LET line == trace[k].out.numeric[n]
        IN /\ line.count + line.missing = Len(data)
           /\ line.missing = Cardinality(NoneCells(line.col))

\* C17: every row the pure-Python Facebook-ads load stores in self.data has
\* as many cells as there are headers, and is what a record of the file
\* gives: its cells in header order, None where the record is too short,
\* nothing of what a longer record holds beyond the last header.
C17_RowsHaveHeaderLength ==
  (script = "ads_py" /\ pc # "load" /\ file.readable) =>
    \A r \in DOMAIN data :
      /\ Len(data[r]) = Len(headers)
      /\ \E q \in DOMAIN file.records :
           \A i \in DOMAIN headers :
             IF i > Len(file.records[q]) THEN data[r][i] = None
             ELSE LET cell == AdsPyProcessCell(headers[i], file.records[q][i])
                  IN data[r][i] \in {cell, AdsPyConvert(cell)}

\* a loaded table with a padded row and with a row of a record that was cut
C17_Witness ==
  /\ script = "ads_py" /\ pc = "stats"
  /\ \E q, s \in DOMAIN file.records :
       /\ Len(file.records[q]) < Len(headers)
       /\ Len(file.records[s]) > Len(headers)
  /\ Len(data) = 2
  /\ \E r \in DOMAIN data : data[r][Len(headers)] = None

-----------------------------------------------------------------------------
(* A client of the classes: it builds one analyzer and calls its public    *)
(* methods itself, in any order and any number of times up to MaxCalls.    *)
(* A call that raises ends the client and is not a step here: the loads of *)
(* the polars and the posts analyzers on a file that cannot be read, and   *)
(* perform_groupby_analysis of the two dataframe analyzers before a load   *)
(* has set self.df.                                                        *)

MaxCalls == 2

ClientAdsFiles ==
  {MissingFile} \cup Tables(<<"page_id", "spend">>, <<Word, Num>>, 1)

ClientPostsFiles == Tables(<<"Facebook_Id", "Likes">>, <<Word, Num>>, 1)

ClientGroupCols == {<<"page_id">>, <<"ad_id">>, <<"page_id", "ad_id">>}

\* analyzer = PythonAnalyzer(path) and its like: __init__, then the calls
InitClient ==
  /\ \/ /\ script \in {"ads_py", "ads_pd"}
        /\ file \in ClientAdsFiles
     \/ /\ script = "ads_pl"
        /\ file \in ClientAdsFiles \ {MissingFile}
     \/ /\ script = "posts_py"
        /\ file \in ClientPostsFiles
  /\ queue = <<>>
  /\ pc = "client"
  /\ headers = NewAnalyzer.headers /\ data = NewAnalyzer.data
  /\ numeric_columns = NewAnalyzer.numeric_columns
  /\ categorical_columns = NewAnalyzer.categorical_columns
  /\ text_columns = NewAnalyzer.text_columns
  /\ trace = <<>>

ClientMayCall == pc = "client" /\ Len(trace) < MaxCalls

\* self.df is a dataframe once a load has read the file
ClientHasFrame ==
  file.readable /\ \E k \in DOMAIN trace : trace[k].op = "load_and_clean_data"

ClientAdsPyLoad ==
  /\ ClientMayCall /\ script = "ads_py"
  /\ Load(AdsPy_load_and_clean_data(Self, file), "client")

ClientAdsPdLoad ==
  /\ ClientMayCall /\ script = "ads_pd"
  /\ Load(AdsPd_load_and_clean_data(Self, file), "client")

ClientAdsPlLoad ==
  /\ ClientMayCall /\ script = "ads_pl"
  /\ Load(AdsPl_load_and_clean_data(Self, file), "client")

ClientPostsLoad ==
  /\ ClientMayCall /\ script = "posts_py"
  /\ Load(Posts_load_and_clean_data(Self, file), "client")

ClientAdsPyGroupBy ==
  /\ ClientMayCall /\ script = "ads_py"
  /\ \E group_cols \in ClientGroupCols :
       Report("perform_groupby_analysis", group_cols,
              AdsPy_perform_groupby_analysis(Self, group_cols), "client")

ClientAdsPdGroupBy ==
  /\ ClientMayCall /\ script = "ads_pd" /\ ClientHasFrame
  /\ \E group_cols \in ClientGroupCols :
       Report("perform_groupby_analysis", group_cols,
              AdsPd_perform_groupby_analysis(Self, group_cols), "client")

ClientAdsPlGroupBy ==
  /\ ClientMayCall /\ script = "ads_pl" /\ ClientHasFrame
  /\ \E group_cols \in ClientGroupCols :
       Report("perform_groupby_analysis", group_cols,
              AdsPl_perform_groupby_analysis(Self, group_cols), "client")

NextClient ==
  \/ ClientAdsPyLoad
  \/ ClientAdsPdLoad
  \/ ClientAdsPlLoad
  \/ ClientPostsLoad
  \/ ClientAdsPyGroupBy
  \/ ClientAdsPdGroupBy
  \/ ClientAdsPlGroupBy

SpecClient == InitClient /\ [][NextClient]_vars

\* C18: after any number of load_and_clean_data calls on one pure-Python
\* analyzer (ads or posts) that read the file, every header appears exactly
\* once across the numeric list and the categorical (ads) or text (posts) list.
C18_EveryHeaderListedOnce ==
  (/\ script \in {"ads_py", "posts_py"}
   /\ file.readable
   /\ \E k \in DOMAIN trace : trace[k].op = "load_and_clean_data")
  => \A i \in DOMAIN headers :
       Count(numeric_columns \o categorical_columns \o text_columns,
             headers[i]) = 1

\* the columns of a call's list that the loaded table does not have
AbsentColumns(group_cols) ==
  {group_cols[i] : i \in {j \in DOMAIN group_cols :
                            \A h \in DOMAIN headers : headers[h] # group_cols[j]}}

\* C19: perform_groupby_analysis of the three ads analyzers, called with a
\* grouping column the loaded table does not have, reports the missing
\* columns and returns: no group is formed, no statistic is computed and the
\* analyzer is left as it was.
C19_MissingColumnReturnsEarly ==
  [][(/\ script \in {"ads_py", "ads_pd", "ads_pl"}
      /\ Len(trace') = Len(trace) + 1
      /\ trace'[Len(trace')].op = "perform_groupby_analysis"
      /\ AbsentColumns(trace'[Len(trace')].args) # {})
     => LET call == trace'[Len(trace')] IN
        /\ Range(call.out.missing) = AbsentColumns(call.args)
        /\ call.out.ngroups = 0
        /\ call.out.top = <<>>
        /\ call.out.sizes = NoStats
        /\ UNCHANGED analyzer]_vars

C19_Witness ==
  /\ script = "ads_pd"
  /\ data # <<>>
  /\ trace # <<>>
  /\ LET call == trace[Len(trace)] IN
     /\ call.op = "perform_groupby_analysis"
     /\ call.args = <<"page_id", "ad_id">>
     /\ call.out.missing = <<"ad_id">>
     /\ call.out.ngroups = 0

AdsPyCalls(op) ==
  {k \in DOMAIN trace : trace[k].script = "ads_py" /\ trace[k].op = op}

AdsPyPrinted(text) ==
  \E k \in AdsPyCalls("print") : trace[k].args = <<text>>

\* C20: in run_complete_analysis of the pure-Python ads analyzer, when the
\* load fails or yields no row, the run prints "No data loaded!" and ends:
\* no column statistics, no group-by analysis, and the closing
\* "ANALYSIS COMPLETED SUCCESSFULLY" is never printed.
C20_NoDataEndsRun ==
  (script = "ads_py" /\ pc # "load" /\ data = <<>>)
  => /\ pc \in {"no_data", "done"}
     /\ AdsPyCalls("compute_column_statistics") = {}
     /\ AdsPyCalls("perform_groupby_analysis") = {}
     /\ ~AdsPyPrinted("ANALYSIS COMPLETED SUCCESSFULLY")
     /\ pc = "done" =>
          /\ AdsPyPrinted("No data loaded!")
          /\ trace[Len(trace)].op = "print"
          /\ trace[Len(trace) - 1].op = "load_and_clean_data"

C20_Witness ==
  /\ script = "ads_py" /\ pc = "done"
  /\ file.readable /\ file.records = <<>>
  /\ data = <<>>
  /\ AdsPyPrinted("No data loaded!")

AdsPlCalls(op) ==
  {k \in DOMAIN trace : trace[k].script = "ads_pl" /\ trace[k].op = op}

\* C21: in run_complete_analysis of the polars ads analyzer the closing
\* "ANALYSIS COMPLETED SUCCESSFULLY" is printed only in a run in which no
\* step failed: not when the load raised, and not when a group-by analysis
\* reported that it could not be done.
C21_BannerOnlyWithoutFailure ==
  (\E k \in AdsPlCalls("print") :
     trace[k].args = <<"ANALYSIS COMPLETED SUCCESSFULLY">>)
  => /\ file.readable
     /\ \A k \in AdsPlCalls("perform_groupby_analysis") :
          trace[k].out.missing = <<>>

\* the keys of line 225 for the rows of the loaded table
AdsPyRowKeys(group_cols) ==
  [r \in DOMAIN data |->
     AdsPyGroupKey(data[r], [k \in DOMAIN group_cols |->
                               IndexOf(headers, group_cols[k])])]

\* C22: the groups of the pure-Python group-by operations (ads
\* perform_groupby_analysis, Twitter group_and_print) partition the table:
\* every row is in exactly one group, the rows with a missing grouping cell
\* are a group and not dropped, and the group sizes sum to the number of rows.
C22_GroupsPartitionRows ==
  /\ script = "ads_py" =>
       \A c \in AdsPyCalls("perform_groupby_analysis") :
         LET out == trace[c].out
             keys == AdsPyRowKeys(trace[c].args)
         IN out.missing = <<>> =>
              /\ out.sizes.count = out.ngroups
              /\ out.sizes.total = Len(data)
              /\ \A g \in DOMAIN out.top : out.top[g].rows = Count(keys, out.top[g].key)
              /\ out.ngroups <= TopGroups =>
                   \A r \in DOMAIN data :
                     Cardinality({g \in DOMAIN out.top : out.top[g].key = keys[r]}) = 1
  /\ script = "tw_py" =>
       \A c \in {k \in DOMAIN trace : trace[k].script = "tw_py"
                                       /\ trace[k].op = "group_and_print"} :
         LET out == trace[c].out
             keys == TwKeys(Self, trace[c].args)
         IN /\ out.ngroups = Len(out.d)
            /\ \A r \in DOMAIN data :
                 Cardinality({g \in DOMAIN out.d : out.d[g] = keys[r]}) = 1
            /\ Sum([g \in DOMAIN out.d |-> Count(keys, out.d[g])]) = Len(data)
            /\ \A g \in DOMAIN out.rows : out.rows[g].count = Count(keys, out.rows[g].key)
            /\ out.ngroups <= TopN =>
                 Sum([g \in DOMAIN out.rows |-> out.rows[g].count]) = Len(data)

C22_Witness ==
  /\ script = "ads_py"
  /\ Len(data) >= 2
  /\ \E c \in AdsPyCalls("perform_groupby_analysis") :
       /\ trace[c].out.missing = <<>>
       /\ trace[c].out.ngroups >= 2
       /\ trace[c].out.sizes.total = Len(data)
       /\ \E g \in DOMAIN trace[c].out.top : trace[c].out.top[g].key = <<None>>

-----------------------------------------------------------------------------
(* The Facebook-posts pure-Python script started twice on one file: two    *)
(* processes, one after the other, each with its own analyzer.             *)

RunsFiles ==
  Tables(<<"Facebook_Id", "Likes">>, <<Word, Num>>, 1)
    \cup Tables(<<"Page Category", "post_id">>, <<Word, Num>>, 1)

InitRuns ==
  /\ file \in RunsFiles
  /\ script = "posts_py"
  /\ queue = <<"posts_py">>
  /\ pc = EntryPc("posts_py")
  /\ headers = NewAnalyzer.headers /\ data = NewAnalyzer.data
  /\ numeric_columns = NewAnalyzer.numeric_columns
  /\ categorical_columns = NewAnalyzer.categorical_columns
  /\ text_columns = NewAnalyzer.text_columns
  /\ trace = <<>>

NextRuns ==
  \/ PostsRunLoad \/ PostsRunStats \/ PostsRunById \/ PostsRunByIdAndPost
  \/ PostsRunByCategory \/ PostsRunCompare
  \/ RunEnd
  \/ NextScript

SpecRuns == InitRuns /\ [][NextRuns]_vars

\* the tables printed by the steps first..last of the trace: title and columns
PrintedTables(first, last) ==
  LET tables == SelectSeq(SubSeq(trace, first, last),
                          LAMBDA e : e.op = "print" /\ e.args[1] = "_print_table")
  IN [t \in DOMAIN tables |-> [title |-> tables[t].args[2], keys |-> tables[t].out.keys]]

\* C23: two runs of the Facebook-posts pure-Python analyzer on the same
\* input print the same tables with the columns in the same order.
C23_RunsPrintSameTables ==
  LET loads == {k \in DOMAIN trace : trace[k].op = "load_and_clean_data"} IN
  (pc = "done" /\ queue = <<>> /\ Cardinality(loads) = 2)
  => PrintedTables(1, SetMax(loads) - 1) = PrintedTables(SetMax(loads), Len(trace))

-----------------------------------------------------------------------------
(* Termination of the pure-Python scripts.  A script is one sequential     *)
(* process: whenever it has a next statement it executes it, which is weak *)
(* fairness of its steps.                                                  *)

\* files whose records are shorter or longer than the header, or equal
PyAdsRaggedFiles ==
  {File(<<"page_id", "spend">>, recs) :
     recs \in {<<>>} \cup {<<r>> : r \in RaggedRecords}
              \cup {<<<<>>, <<C("int", 7), C("int", 8), C("word", 1)>>>>,
                     <<<<C("int", 7), C("int", 8)>>, <<C("int", 7), C("int", 8)>>>>}}

PyJobs ==
  {[script |-> "ads_py", file |-> f] :
     f \in {MissingFile} \cup PyAdsRaggedFiles
            \cup Tables(<<"page_id", "currency">>, <<Word, Word>>, 1)}
    \cup {[script |-> "posts_py", file |-> f] : f \in {MissingFile} \cup RunsFiles}
    \cup {[script |-> "tw_py", file |-> f] :
            f \in {MissingFile} \cup Tables(<<"source", "likeCount">>, <<Word, Num>>, 1)
                   \cup Tables(<<"id", "lang">>, <<Num, Word>>, 1)}

InitPy ==
  /\ \E job \in PyJobs : file = job.file /\ script = job.script
  /\ queue = <<>>
  /\ pc = EntryPc(script)
  /\ headers = NewAnalyzer.headers /\ data = NewAnalyzer.data
  /\ numeric_columns = NewAnalyzer.numeric_columns
  /\ categorical_columns = NewAnalyzer.categorical_columns
  /\ text_columns = NewAnalyzer.text_columns
  /\ trace = <<>>

NextPy ==
  \/ AdsPyRunLoad \/ AdsPyRunStats \/ AdsPyRunGroupPage \/ AdsPyRunGroupPageAd
  \/ AdsPyRunGroupBest
  \/ PostsRunLoad \/ PostsRunStats \/ PostsRunById \/ PostsRunByIdAndPost
  \/ PostsRunByCategory \/ PostsRunCompare
  \/ TwPyRunLoad \/ TwPyRunStats
  \/ \E k \in DOMAIN ColSets : TwPyRunGroup(k) \/ TwPyRunNumStats(k)
  \/ \E k \in DOMAIN EngagementGroups : TwPyRunEngagement(k)
  \/ RunNoData \/ RunBanner \/ RunEnd

SpecPy == InitPy /\ [][NextPy]_vars /\ WF_vars(NextPy)

====
